---- MODULE Spec2Model ----
(***************************************************************************)
(* Verification model of jxe/placelists (SpotiSpot).                       *)
(*                                                                         *)
(* Part 1: the schedule engine of app/lib/utils.ts (src/unnamed/part_001): *)
(*   expandDayRange, parseTime, parseSchedule,                             *)
(*   getMinutesSinceMidnightInTimeZone, getScheduleStatus.                 *)
(* Part 2: the player component of app/routes/play/$sessionId.tsx          *)
(*   (src/unnamed/part_003) with the server action it posts to.            *)
(*                                                                         *)
(* Text is modelled as a sequence of one-character strings, so that the    *)
(* regular expressions and the split/trim calls of the source are          *)
(* computed character by character.                                        *)
(***************************************************************************)
EXTENDS Integers, Sequences, FiniteSets, TLC

VARIABLES
    \* ---- schedule engine harness ----
    schedule,       \* the schedule text handed to parseSchedule / getScheduleStatus
    parseResult,    \* the ScheduleParseResult parseSchedule returned (line 265)
    date,           \* the Date handed to getScheduleStatus (UTC minute of the week)
    localZone,      \* Intl.DateTimeFormat().resolvedOptions().timeZone of the system
    result,         \* what the last getScheduleStatus call produced
    \* ---- player ----
    items,          \* placelist.items
    now,            \* the wall clock read by new Date() (UTC minute of the week)
    position,       \* useState position: the latest position sample
    error,          \* useState error
    currentItem,    \* useState currentItem
    distance,       \* useState distance
    watching,       \* useState watching
    unlocking,      \* useState unlocking
    scheduleStatus, \* useState scheduleStatus
    watchId,        \* useRef watchId
    watches,        \* the geolocation watches registered with the browser
    pendingStarts,  \* startWatching calls suspended at the await of line 270
    interval,       \* the setInterval of the schedule effect (the item it closes over)
    mounted,        \* whether the Player component is mounted
    fetcherState,   \* progressFetcher.state
    requests,       \* update-progress requests the server has not finished
    storedProgress, \* session.progress in the database
    nextWatchId,    \* the id the browser gives the next watchPosition call
    crashed,        \* an exception escaped an effect or a timer callback
    \* ---- calls of one function ----
    arg,            \* the argument the function is called with
    returned,       \* what the call returned
    \* ---- database ----
    placelists,     \* the rows of the Placelist table, by id
    users,          \* the rows of the User table, in creation order
    sessionUserId,  \* UserSession.userId of the play session
    \* ---- placelist editor ----
    parsedItems,        \* useState parsedItems
    textAreaValue,      \* useState textAreaValue
    newEntrySpotifyUrl, \* useState newEntrySpotifyUrl
    isGettingLocation,  \* useState isGettingLocation
    locationRequests    \* getCurrentPosition calls the browser has not answered

schedVars == <<schedule, parseResult, date, result>>
playerVars == <<items, now, position, error, currentItem, distance, watching,
                unlocking, scheduleStatus, watchId, watches, pendingStarts,
                interval, mounted, fetcherState, requests, storedProgress,
                nextWatchId, crashed>>
callVars == <<arg, returned>>
storeVars == <<placelists, users, sessionUserId>>
editorVars == <<parsedItems, textAreaValue, newEntrySpotifyUrl, isGettingLocation,
                locationRequests>>
harnessVars == <<schedVars, localZone, callVars, storeVars, editorVars>>
vars == <<harnessVars, playerVars>>

(***************************************************************************)
(* Characters                                                              *)
(***************************************************************************)
Digits == <<"0","1","2","3","4","5","6","7","8","9">>
UpperLetters == <<"A","B","C","D","E","F","G","H","I","J","K","L","M",
                  "N","O","P","Q","R","S","T","U","V","W","X","Y","Z">>
LowerLetters == <<"a","b","c","d","e","f","g","h","i","j","k","l","m",
                  "n","o","p","q","r","s","t","u","v","w","x","y","z">>

Range(s) == {s[i] : i \in DOMAIN s}

\* the index of c in s, 0 when absent
IndexIn(s, c) == IF c \in Range(s) THEN CHOOSE i \in DOMAIN s : s[i] = c ELSE 0

DigitSet == Range(Digits)
UpperSet == Range(UpperLetters)
LowerSet == Range(LowerLetters)

\* \d
IsDigit(c) == c \in DigitSet
\* [A-Z]
IsUpper(c) == c \in UpperSet
\* [a-z]
IsLower(c) == c \in LowerSet
\* [A-Z] under the i flag, [a-z] under the i flag
IsLetter(c) == IsUpper(c) \/ IsLower(c)
\* \s
IsSpace(c) == c \in {" ", "\t", "\n"}

\* String.prototype.toLowerCase, one character
LowerChar(c) == IF IsUpper(c) THEN LowerLetters[IndexIn(UpperLetters, c)] ELSE c
\* String.prototype.toLowerCase
toLowerCase(s) == [i \in DOMAIN s |-> LowerChar(s[i])]

\* String.prototype.toUpperCase, one character
UpperChar(c) == IF IsLower(c) THEN UpperLetters[IndexIn(LowerLetters, c)] ELSE c
\* String.prototype.toUpperCase
toUpperCase(s) == [i \in DOMAIN s |-> UpperChar(s[i])]

\* parseInt(str, 10) of a string of digits
RECURSIVE parseInt(_)
parseInt(s) ==
    IF s = <<>> THEN 0
    ELSE 10 * parseInt(SubSeq(s, 1, Len(s) - 1)) + (IndexIn(Digits, s[Len(s)]) - 1)

\* whether sep occurs in s at index i
OccursAt(s, sep, i) ==
    /\ i >= 1
    /\ i + Len(sep) - 1 <= Len(s)
    /\ \A k \in 1..Len(sep) : s[i + k - 1] = sep[k]

\* the least element of a non-empty set of integers
MinOf(S) == CHOOSE x \in S : \A y \in S : x <= y
MaxOf(S) == CHOOSE x \in S : \A y \in S : x >= y

\* s[i], or "" outside s
CharAt(s, i) == IF i >= 1 /\ i <= Len(s) THEN s[i] ELSE ""

\* String.prototype.indexOf(sep), counted from 1, 0 when sep does not occur
FirstIndex(s, sep) ==
    IF \E i \in 1..Len(s) : OccursAt(s, sep, i)
    THEN MinOf({i \in 1..Len(s) : OccursAt(s, sep, i)})
    ELSE 0

\* String.prototype.split with a non-empty string separator
RECURSIVE split(_, _)
SplitAt(s, sep, i) ==
    IF i = 0 THEN <<s>>
    ELSE <<SubSeq(s, 1, i - 1)>> \o split(SubSeq(s, i + Len(sep), Len(s)), sep)

split(s, sep) == SplitAt(s, sep, FirstIndex(s, sep))

\* String.prototype.trim
TrimTo(s, keep) == IF keep = {} THEN <<>> ELSE SubSeq(s, MinOf(keep), MaxOf(keep))

trim(s) == TrimTo(s, {i \in DOMAIN s : ~IsSpace(s[i])})

(***************************************************************************)
(* Time and time zones (the platform's Date and Intl)                      *)
(*                                                                         *)
(* An instant is the UTC minute of a week that starts on Sunday 00:00 UTC. *)
(* A zone is a fixed offset from UTC; daylight saving is left out.         *)
(***************************************************************************)
MinutesPerDay == 1440
MinutesPerWeek == 7 * MinutesPerDay

UTC == <<"U","T","C">>
PST == <<"P","S","T">>
EST == <<"E","S","T">>
Tokyo == <<"A","s","i","a","/","T","o","k","y","o">>
LosAngeles == <<"A","m","e","r","i","c","a","/","L","o","s","_","A","n","g","e","l","e","s">>

\* the zone identifiers Intl.DateTimeFormat accepts (matched without regard to
\* case), with the offset of each in minutes; any other identifier makes the
\* constructor throw a RangeError
ZoneTable == <<[id |-> UTC, offset |-> 0],
               [id |-> PST, offset |-> 0 - 480],
               [id |-> EST, offset |-> 0 - 300],
               [id |-> Tokyo, offset |-> 540],
               [id |-> LosAngeles, offset |-> 0 - 480]>>

ZoneKnown(tz) == \E i \in DOMAIN ZoneTable : toLowerCase(ZoneTable[i].id) = toLowerCase(tz)

ZoneOffset(tz) ==
    ZoneTable[CHOOSE i \in DOMAIN ZoneTable : toLowerCase(ZoneTable[i].id) = toLowerCase(tz)].offset

\* the weekday index (0 = Sunday) and the minute of the day of instant d at an offset
WeekdayAt(d, offset) == ((d + offset) % MinutesPerWeek) \div MinutesPerDay
MinuteAt(d, offset) == (d + offset) % MinutesPerDay

\* Date.prototype.getDay: the weekday in the system's local zone
getDay(d) == WeekdayAt(d, ZoneOffset(localZone))

(***************************************************************************)
(* expandDayRange                                                          *)
(***************************************************************************)
mo == <<"m","o">>
tu == <<"t","u">>
we == <<"w","e">>
th == <<"t","h">>
fr == <<"f","r">>
sa == <<"s","a">>
su == <<"s","u">>

dayOrder == <<mo, tu, we, th, fr, sa, su>>

\* /^([a-z]{2})-([a-z]{2})$/i
DayRangeMatch(part) ==
    /\ Len(part) = 5
    /\ IsLetter(part[1]) /\ IsLetter(part[2])
    /\ part[3] = "-"
    /\ IsLetter(part[4]) /\ IsLetter(part[5])

\* lines 145-150 were the slice to stop before endIndex
DaysBefore(startIndex, endIndex) ==
    IF startIndex # 0 /\ endIndex # 0 /\ startIndex <= endIndex
    THEN SubSeq(dayOrder, startIndex, endIndex - 1)
    ELSE <<>>

\* lines 145-150: the days a range from startIndex to endIndex pushes
\* (IndexIn is 1-based with 0 for absent where indexOf is 0-based with -1)
DaysBetween(startIndex, endIndex) ==
    IF startIndex # 0 /\ endIndex # 0 /\ startIndex <= endIndex
    THEN SubSeq(dayOrder, startIndex, endIndex)
    ELSE <<>>

\* lines 143-153: the days the lower-cased part pushes
ExpandNormalized(normalizedPart) ==
    IF DayRangeMatch(normalizedPart)
    THEN DaysBetween(IndexIn(dayOrder, toLowerCase(SubSeq(normalizedPart, 1, 2))),
                     IndexIn(dayOrder, toLowerCase(SubSeq(normalizedPart, 4, 5))))
    ELSE IF normalizedPart \in Range(dayOrder) THEN <<normalizedPart>>
    ELSE <<>>

\* the body of the forEach callback: the days one part pushes
ExpandDayPart(part) == ExpandNormalized(toLowerCase(part))

RECURSIVE ExpandDayParts(_)
ExpandDayParts(parts) ==
    IF parts = <<>> THEN <<>>
    ELSE ExpandDayPart(Head(parts)) \o ExpandDayParts(Tail(parts))

expandDayRange(dayRange) == ExpandDayParts(split(dayRange, <<",", " ">>))

(***************************************************************************)
(* parseTime                                                               *)
(***************************************************************************)
\* /^(\d{1,2})(?::(\d{2}))?\s*([ap]m?)?$/i, piece by piece.
\* (\d{1,2}) : the number of digits it takes
LeadingDigits(time) ==
    IF IsDigit(CharAt(time, 1)) THEN (IF IsDigit(CharAt(time, 2)) THEN 2 ELSE 1) ELSE 0

\* (?::(\d{2}))? after nd digits: whether it takes the minutes
HasMinutes(time, nd) ==
    /\ CharAt(time, nd + 1) = ":"
    /\ IsDigit(CharAt(time, nd + 2))
    /\ IsDigit(CharAt(time, nd + 3))

\* the index after the hour and the minutes
AfterMinutes(time, nd) == IF HasMinutes(time, nd) THEN nd + 4 ELSE nd + 1

\* \s* from index p: the index after the white space
SkipSpaces(time, p) ==
    p + Cardinality({k \in p..Len(time) : \A j \in p..k : IsSpace(time[j])})

\* ([ap]m?)? at index q: the number of characters it takes
PeriodLen(time, q) ==
    IF LowerChar(CharAt(time, q)) \in {"a", "p"}
    THEN (IF LowerChar(CharAt(time, q + 1)) = "m" THEN 2 ELSE 1)
    ELSE 0

\* the groups, and whether the whole of time matched ($)
TimeGroups(time, nd, q) ==
    [matched |-> nd >= 1 /\ q + PeriodLen(time, q) = Len(time) + 1,
     hourStr |-> SubSeq(time, 1, nd),
     minuteStr |-> IF HasMinutes(time, nd) THEN SubSeq(time, nd + 2, nd + 3) ELSE <<>>,
     period |-> SubSeq(time, q, q + PeriodLen(time, q) - 1)]

TimeMatchFrom(time, nd) == TimeGroups(time, nd, SkipSpaces(time, AfterMinutes(time, nd)))

TimeMatch(time) == TimeMatchFrom(time, LeadingDigits(time))

\* String.prototype.startsWith
startsWith(s, prefix) ==
    Len(s) >= Len(prefix) /\ SubSeq(s, 1, Len(prefix)) = prefix

\* lines 170-174: the hour after the am/pm correction.  period is the marker
\* in upper case (line 171), and startsWith compares it with "p" and "a".
HourOf(hour, period) ==
    IF period # <<>> /\ startsWith(period, <<"p">>) /\ hour # 12 THEN hour + 12
    ELSE IF period # <<>> /\ startsWith(period, <<"a">>) /\ hour = 12 THEN 0
    ELSE hour

\* lines 164-176 on the match
TimeValue(match) ==
    IF ~match.matched THEN [threw |-> TRUE, value |-> 0]
    ELSE [threw |-> FALSE,
          value |-> HourOf(parseInt(match.hourStr), toUpperCase(match.period)) * 60
                    + (IF match.minuteStr # <<>> THEN parseInt(match.minuteStr) ELSE 0)]

\* parseTime: [threw |-> TRUE] for the Error of line 164, else the minutes
parseTime(time) == TimeValue(TimeMatch(time))

(***************************************************************************)
(* parseSchedule                                                           *)
(***************************************************************************)
\* /\s([A-Z]{2,5})$/i : the lengths a trailing zone token can have (at most one)
TzMatchLens(text) ==
    {k \in 2..5 : /\ Len(text) - k >= 1
                  /\ IsSpace(text[Len(text) - k])
                  /\ \A j \in (Len(text) - k + 1)..Len(text) : IsLetter(text[j])}

\* line 188: the zone of the text
ZoneOfText(text, ks) ==
    IF ks = {} THEN localZone
    ELSE SubSeq(text, Len(text) - MinOf(ks) + 1, Len(text))

\* /\s[A-Z]{2,5}$/ : without the i flag
UpperTzMatchLens(text) ==
    {k \in 2..5 : /\ Len(text) - k >= 1
                  /\ IsSpace(text[Len(text) - k])
                  /\ \A j \in (Len(text) - k + 1)..Len(text) : IsUpper(text[j])}

StripLen(text, ks) == IF ks = {} THEN text ELSE SubSeq(text, 1, Len(text) - 1 - MinOf(ks))

\* schedule.replace(/\s[A-Z]{2,5}$/, "")
StripZone(text) == StripLen(text, UpperTzMatchLens(text))

\* the class [\d:apm,-\s] under the i flag
IsTimeChar(c) == IsDigit(c) \/ IsSpace(c) \/ c \in {":", ",", "-", "a", "p", "m", "A", "P", "M"}

\* entry.match(/([\d:apm,-\s]+) \(([^)]+)\)/i) : the leftmost match.  Group 1 is
\* a run of class characters; the " (" after it forces the run to end with that
\* space, so a match is fixed by the index j of the space: group 1 starts
\* where the run of class characters before j starts, group 2 runs from j + 2
\* to the next ")".
EntryCloses(entry, j) == {k \in (j + 3)..Len(entry) : entry[k] = ")"}

EntrySpaces(entry) ==
    {j \in 2..Len(entry) : /\ j + 2 <= Len(entry)
                           /\ entry[j] = " " /\ entry[j + 1] = "("
                           /\ IsTimeChar(entry[j - 1])
                           /\ entry[j + 2] # ")"
                           /\ EntryCloses(entry, j) # {}}

RunStart(entry, j) ==
    MinOf({i \in 1..(j - 1) : \A k \in i..(j - 1) : IsTimeChar(entry[k])})

EntryGroups(entry, j) ==
    [matched |-> TRUE,
     timePart |-> SubSeq(entry, RunStart(entry, j), j - 1),
     daysPart |-> SubSeq(entry, j + 2, MinOf(EntryCloses(entry, j)) - 1)]

EntryMatchIn(entry, js) ==
    IF js = {} THEN [matched |-> FALSE, timePart |-> <<>>, daysPart |-> <<>>]
    ELSE EntryGroups(entry, MinOf(js))

EntryMatch(entry) == EntryMatchIn(entry, EntrySpaces(entry))

\* a throw inside the try block
Threw == [threw |-> TRUE, ranges |-> <<>>]

\* lines 227-231: the time range of a start and an end
RangeOf(start, end, days) ==
    IF start.threw \/ end.threw THEN Threw
    ELSE [threw |-> FALSE,
          ranges |-> <<[start |-> start.value,
                        end |-> IF end.value < start.value
                                THEN end.value + MinutesPerDay ELSE end.value,
                        days |-> days]>>]

\* lines 217-224
RangeOfTimes(times, days) ==
    IF Len(times) # 2 THEN Threw
    ELSE RangeOf(parseTime(trim(times[1])), parseTime(trim(times[2])), days)

\* the callback of timePart.split(", ").map : one time range, or the throw of
\* line 219 or of parseTime
ParseTimeRange(timeRange, days) == RangeOfTimes(split(timeRange, <<"-">>), days)

\* the results of two callbacks together: one throw ends the try block
Both(first, rest) ==
    IF first.threw \/ rest.threw THEN Threw
    ELSE [threw |-> FALSE, ranges |-> first.ranges \o rest.ranges]

RECURSIVE ParseTimeRanges(_, _)
ParseTimeRanges(timeRanges, days) ==
    IF timeRanges = <<>> THEN [threw |-> FALSE, ranges |-> <<>>]
    ELSE Both(ParseTimeRange(Head(timeRanges), days),
              ParseTimeRanges(Tail(timeRanges), days))

\* lines 200-212 on the match
ParseMatched(match) ==
    IF ~match.matched THEN Threw
    ELSE ParseTimeRanges(split(match.timePart, <<",", " ">>),
                         Range(expandDayRange(match.daysPart)))

\* the callback of scheduleWithoutTZ.split("; ").flatMap : the time ranges of
\* one entry, or the throw of line 202
ParseEntry(entry) == ParseMatched(EntryMatch(entry))

RECURSIVE ParseEntries(_)
ParseEntries(entries) ==
    IF entries = <<>> THEN [threw |-> FALSE, ranges |-> <<>>]
    ELSE Both(ParseEntry(Head(entries)), ParseEntries(Tail(entries)))

TryResult(entries, timeZone) ==
    [threw |-> entries.threw, timeRanges |-> entries.ranges, timeZone |-> timeZone]

\* the try block of parseSchedule (lines 183-240): what it returns, or that it threw
ParseScheduleTry(text) ==
    TryResult(ParseEntries(split(StripZone(text), <<";", " ">>)),
              ZoneOfText(text, TzMatchLens(text)))

\* the catch of lines 241-248 turns every throw into the rule with no time
\* ranges in the local zone
CatchOf(try) ==
    IF try.threw THEN [timeRanges |-> <<>>, timeZone |-> localZone]
    ELSE [timeRanges |-> try.timeRanges, timeZone |-> try.timeZone]

parseSchedule(text) == CatchOf(ParseScheduleTry(text))

(***************************************************************************)
(* getMinutesSinceMidnightInTimeZone, getScheduleStatus                    *)
(***************************************************************************)
\* the null of nextOpenIn
null == 0 - 1

\* getMinutesSinceMidnightInTimeZone: the RangeError of Intl.DateTimeFormat
\* for an identifier it does not know, else hour * 60 + minute in the zone
getMinutesSinceMidnightInTimeZone(d, timeZone) ==
    IF ~ZoneKnown(timeZone) THEN [threw |-> TRUE, value |-> 0]
    ELSE [threw |-> FALSE, value |-> MinuteAt(d, ZoneOffset(timeZone))]

\* ["su", "mo", "tu", "we", "th", "fr", "sa"] of lines 270 and 273
dayNames == <<su, mo, tu, we, th, fr, sa>>

\* line 270: the weekday tag of the instant
dayAbbrOf(d) == dayNames[getDay(d) + 1]

\* lines 272-273: the weekday tag of the day before
prevDayAbbrOf(d) == dayNames[(IF getDay(d) = 0 THEN 6 ELSE getDay(d) - 1) + 1]

\* line 288 were the start assigned whatever nextOpening holds
LastOpening(nextOpening, start) == start

\* line 288: nextOpening === null ? start : Math.min(nextOpening, start)
MinOpening(nextOpening, start) ==
    IF nextOpening = null \/ start < nextOpening THEN start ELSE nextOpening

\* the for loop of lines 277-290 from range i on, with nextOpening so far
RECURSIVE ScanRanges(_, _, _, _, _, _)
\* the loop body without the overnight test of lines 283-285
ScanRangeTodayOnly(timeRanges, i, r, nextOpening, target, dayAbbr, prevDayAbbr) ==
    IF dayAbbr \in r.days /\ target >= r.start /\ target < r.end
    THEN [open |-> TRUE, nextOpening |-> null]
    ELSE IF dayAbbr \in r.days /\ target < r.start
    THEN ScanRanges(timeRanges, i + 1, MinOpening(nextOpening, r.start),
                    target, dayAbbr, prevDayAbbr)
    ELSE ScanRanges(timeRanges, i + 1, nextOpening, target, dayAbbr, prevDayAbbr)

ScanRange(timeRanges, i, r, nextOpening, target, dayAbbr, prevDayAbbr) ==
    IF dayAbbr \in r.days /\ target >= r.start /\ target < r.end
    THEN [open |-> TRUE, nextOpening |-> null]
    ELSE IF prevDayAbbr \in r.days /\ target < r.end - MinutesPerDay
    THEN [open |-> TRUE, nextOpening |-> null]
    ELSE IF dayAbbr \in r.days /\ target < r.start
    THEN ScanRanges(timeRanges, i + 1, MinOpening(nextOpening, r.start),
                    target, dayAbbr, prevDayAbbr)
    ELSE ScanRanges(timeRanges, i + 1, nextOpening, target, dayAbbr, prevDayAbbr)

ScanRanges(timeRanges, i, nextOpening, target, dayAbbr, prevDayAbbr) ==
    IF i > Len(timeRanges) THEN [open |-> FALSE, nextOpening |-> nextOpening]
    ELSE ScanRange(timeRanges, i, timeRanges[i], nextOpening, target, dayAbbr, prevDayAbbr)

\* lines 279-300: the object returned
StatusAfter(scan, target, timeZone) ==
    IF scan.open
    THEN [threw |-> FALSE, open |-> TRUE, nextOpenIn |-> null, timeZone |-> timeZone]
    ELSE IF scan.nextOpening # null
    THEN [threw |-> FALSE, open |-> FALSE, nextOpenIn |-> scan.nextOpening - target,
          timeZone |-> timeZone]
    ELSE [threw |-> FALSE, open |-> FALSE, nextOpenIn |-> null, timeZone |-> timeZone]

\* lines 268-300 with the minutes since midnight, or its RangeError
StatusAt(d, rule, target) ==
    IF target.threw
    THEN [threw |-> TRUE, open |-> FALSE, nextOpenIn |-> null, timeZone |-> <<>>]
    ELSE StatusAfter(ScanRanges(rule.timeRanges, 1, null, target.value,
                                dayAbbrOf(d), prevDayAbbrOf(d)),
                     target.value, rule.timeZone)

\* lines 265-300 with the rule parseSchedule returned
StatusOfRule(d, rule) ==
    StatusAt(d, rule, getMinutesSinceMidnightInTimeZone(d, rule.timeZone))

\* getScheduleStatus: [threw |-> TRUE] when getMinutesSinceMidnightInTimeZone
\* throws (nothing in the function catches it), else the object it returns
getScheduleStatus(d, text) == StatusOfRule(d, parseSchedule(text))

(***************************************************************************)
(* The schedule engine's harnesses: parseSchedule and getScheduleStatus    *)
(* called on schedule texts and instants drawn from bounded sets.          *)
(***************************************************************************)
\* the minutes between two instants of the grid the instants are drawn from
GridMinutes == 60

TimePairs == {
    <<<<"9">>, <<"5">>>>,
    <<<<"9">>, <<"1","7">>>>,
    <<<<"2","2">>, <<"2">>>>,
    <<<<"9","a","m">>, <<"5",":","3","0","p","m">>>>,
    <<<<"1","2","a","m">>, <<"1","2","p","m">>>>,
    <<<<"1","0">>, <<"3">>>>,
    <<<<"2","5">>, <<"2","6">>>>,
    <<<<"9">>, <<"1",":","2">>>>,
    <<<<"9"," ","p","m">>, <<"1","1"," ","P">>>>,
    <<<<"9">>, <<"9","9",":","9","9">>>>,
    <<<<"1","3","p","m">>, <<"2">>>>,
    <<<<"0">>, <<"2","4">>>>}

DayLists == {
    <<"M","O","-","F","R">>,
    <<"S","A","-","S","U">>,
    <<"M","O">>,
    <<"m","o",","," ","W","e">>,
    <<"F","R","-","M","O">>,
    <<"X","X">>,
    <<"M","O",","," ","X","X">>,
    <<"M","O","-","X","X">>,
    <<"M","O","N">>,
    <<"M","O",",","T","U">>,
    <<"T","U","-","T","H",","," ","S","A">>}

ZoneSuffixes == {
    <<>>,
    <<" ","P","S","T">>,
    <<" ","U","T","C">>,
    <<" ","X","Y","Z">>,
    <<" ","p","s","t">>,
    <<" ","E","S","T">>}

\* "<start>-<end> (<days>)<zone>"
ComposedTexts ==
    {tp[1] \o <<"-">> \o tp[2] \o <<" ", "(">> \o d \o <<")">> \o z :
        tp \in TimePairs, d \in DayLists, z \in ZoneSuffixes}

CorpusTexts == {
    <<"9","-","5"," ","(","M","O","-","F","R",")",";"," ","1","0","-","3"," ","(","S","A","-","S","U",")"," ","P","S","T">>,
    <<"9","a","m","-","5",":","3","0","p","m"," ","(","M","O","-","F","R",")",";"," ","1","1","-","3"," ","(","S","A",")"," ","E","S","T">>,
    <<"2","2","-","2"," ","(","M","O",")">>,
    <<"b","o","g","u","s">>,
    <<>>,
    <<"9","-","1","2",","," ","1","3","-","1","7"," ","(","M","O","-","F","R",")">>,
    <<"9","-","1","2",",","1","3","-","1","7"," ","(","M","O",")">>,
    <<"9","-","1","7"," ","(","M","O",")",";","1","0","-","1","5"," ","(","S","A",")">>,
    <<"9"," ","(","M","O",")">>,
    <<"9","-","5","-","7"," ","(","M","O",")">>,
    <<"9","-","5"," ","(",")">>,
    <<"9","-","x"," ","(","M","O",")">>,
    <<"9","-","1","7"," ","(","M","O",")"," ","U","T","C">>,
    <<"2","2","-","2"," ","(","M","O",")"," ","U","T","C">>,
    <<"9","-","1","7"," ","(","M","O",")"," ","X","Y","Z">>,
    <<"9","-","1","7"," ","(","T","U",","," ","X","X",")"," ","P","S","T">>,
    <<"1","3","-","1","7",","," ","9","-","1","2"," ","(","S","A","-","S","U",")">>,
    <<"1","8","-","2","3"," ","(","M","O","-","S","U",")",";"," ","6","-","9"," ","(","M","O","-","F","R",")"," ","E","S","T">>,
    <<"2","0","-","2","3",","," ","8","-","1","2",","," ","1","4","-","1","6"," ","(","M","O",","," ","W","E",","," ","F","R",")"," ","P","S","T">>,
    <<"2","2","-","2"," ","(","S","U",")",";"," ","1","-","3"," ","(","M","O",","," ","T","U",")"," ","U","T","C">>,
    <<"9","-","1","7"," ","(","F","R","-","M","O",")">>,
    <<"9","-","1","7"," ","(","m","o",")"," ","p","s","t">>,
    <<"2","5","-","2","6"," ","(","M","O",")">>,
    <<"0","-","0"," ","(","M","O","-","S","U",")">>,
    <<"1","2","a","m","-","1","2","p","m"," ","(","T","U","-","T","H",")"," ","E","S","T">>,
    <<"2","3","-","1"," ","(","M","O","-","S","U",")"," ","P","S","T">>}

\* the texts parseSchedule is called on
ScheduleTexts == ComposedTexts \cup CorpusTexts

LocalZones == {UTC, Tokyo, LosAngeles}

Instants == {k * GridMinutes : k \in 0..((MinutesPerWeek - 1) \div GridMinutes)}

\* before the call
NoParse == [called |-> FALSE, timeRanges |-> <<>>, timeZone |-> <<>>]
NoResult == [called |-> FALSE, threw |-> FALSE, open |-> FALSE, nextOpenIn |-> null,
             timeZone |-> <<>>]

\* parseSchedule(schedule) is called
Parse ==
    /\ ~parseResult.called
    /\ parseResult' = [called |-> TRUE] @@ parseSchedule(schedule)
    /\ UNCHANGED <<schedule, localZone, date, result>>
    /\ UNCHANGED <<playerVars, callVars, storeVars, editorVars>>

\* getScheduleStatus(d, schedule) is called
Evaluate(d) ==
    /\ ~result.called
    /\ date' = d
    /\ parseResult' = [called |-> TRUE] @@ parseSchedule(schedule)
    /\ result' = [called |-> TRUE] @@ StatusOfRule(d, [timeRanges |-> parseResult'.timeRanges,
                                                       timeZone |-> parseResult'.timeZone])
    /\ UNCHANGED <<schedule, localZone>>
    /\ UNCHANGED <<playerVars, callVars, storeVars, editorVars>>

(***************************************************************************)
(* The player (Player of play/$sessionId.tsx) and the route's action       *)
(*                                                                         *)
(* Locations are points of a line, in metres, and calculateDistance is the *)
(* distance on that line.  A handler and the render and effects that       *)
(* follow it are one step.  The orientation listener is left out.          *)
(***************************************************************************)
\* the watchPosition calls of one run, and the requests the server holds at once
MaxWatches == 2
MaxRequests == 2

\* line 334, 341, 350, 435, 642: the proximity threshold in metres
UnlockRadius == 25

NoSchedule == <<>>
Bogus == <<"b","o","g","u","s">>
Weekday == <<"9","-","1","7"," ","(","M","O",")">>
UnknownZone == <<"9","-","1","7"," ","(","M","O",")"," ","X","Y","Z">>

\* where the waypoints of the placelist lie
Locations == <<0, 100>>
\* where a position sample can be
Positions == {20, 100, 110}
\* Monday 10:00 and Monday 18:00 UTC
PlayerInstants == {MinutesPerDay + 600, MinutesPerDay + 1080}

\* the schedules of the waypoints, placelist by placelist
PlayerScheduleLists == {
    <<NoSchedule, NoSchedule>>,
    <<Weekday, NoSchedule>>,
    <<NoSchedule, Weekday>>,
    <<Bogus, NoSchedule>>,
    <<UnknownZone, Weekday>>}

PlayerPlacelists ==
    {[i \in DOMAIN Locations |-> [location |-> Locations[i], onlyDuring |-> f[i]]] :
        f \in PlayerScheduleLists}

\* calculateDistance, on the line
calculateDistance(p, q) == IF p >= q THEN p - q ELSE q - p

\* useState<...>(null) of scheduleStatus
NullStatus == [set |-> FALSE, open |-> FALSE, nextOpenIn |-> null, timeZone |-> <<>>]
\* a status object getScheduleStatus returned
StatusOf(st) == [set |-> TRUE, open |-> st.open, nextOpenIn |-> st.nextOpenIn,
                 timeZone |-> st.timeZone]

NoInterval == 0 - 1

\* items[i]?.onlyDuring is truthy (i counts from 0 as in the source)
HasSchedule(i) == i < Len(items) /\ items[i + 1].onlyDuring # <<>>

\* line 233
isComplete == currentItem >= Len(items)

\* lines 435 and 455: a dependency of the schedule effect changed
DepsChanged(ci, dist, w, reval) ==
    reval \/ ci # currentItem \/ dist # distance \/ w # watching

\* line 435: the schedule effect goes on to set its interval
AtScheduled(ci, dist, w) ==
    w /\ dist # null /\ dist # 0 /\ dist <= UnlockRadius /\ HasSchedule(ci)

\* the commit of a render: effect says whether the schedule effect ran past
\* line 435, status what its getScheduleStatus call gave
Commit(ci, dist, w, unl, st, fs, rerun, effect, status, ws, wid) ==
    /\ currentItem' = ci
    /\ distance' = dist
    /\ watching' = w
    /\ unlocking' = IF fs = "idle" THEN FALSE ELSE unl
    /\ fetcherState' = fs
    /\ scheduleStatus' = IF effect /\ ~status.threw THEN StatusOf(status) ELSE st
    /\ interval' = IF ~rerun THEN interval ELSE IF effect THEN ci ELSE NoInterval
    /\ crashed' = (crashed \/ (effect /\ status.threw))
    /\ mounted' = ~(effect /\ status.threw)
    /\ watches' = IF effect /\ status.threw THEN {x \in ws : x.id # wid} ELSE ws

\* The render that follows a handler which left the component with current
\* item ci, distance dist, watching w, unlocking unl, schedule status st and
\* fetcher state fs (reval: the loader data was replaced), and its effects:
\*   lines 427-431: unlocking is reset when the fetcher is idle;
\*   lines 434-455: when watching, distance, currentItem or items changed, the
\*     interval is cleared and, at a scheduled waypoint within the radius, set
\*     again and the status computed at once; getScheduleStatus throwing there
\*     escapes the effect, which unmounts the component (the cleanup of lines
\*     414-424 runs on the watch wid) and leaves the interval of line 448 set.
Render(ci, dist, w, unl, st, fs, reval, ws, wid) ==
    IF DepsChanged(ci, dist, w, reval) /\ AtScheduled(ci, dist, w)
    THEN Commit(ci, dist, w, unl, st, fs, TRUE, TRUE,
                getScheduleStatus(now, items[ci + 1].onlyDuring), ws, wid)
    ELSE Commit(ci, dist, w, unl, st, fs, DepsChanged(ci, dist, w, reval), FALSE,
                NullStatus, ws, wid)

\* the component's state is left as it is (a handler of an unmounted component)
ComponentUnchanged ==
    UNCHANGED <<currentItem, distance, watching, unlocking, scheduleStatus, interval,
                crashed, mounted, position, error>>

\* progressFetcher.submit({intent: "update-progress", progress}): the request
\* goes to the server; an earlier submission of this fetcher is no longer awaited
Submit(progress) ==
    requests' = [i \in DOMAIN requests |-> [requests[i] EXCEPT !.awaited = FALSE]]
                \o <<[progress |-> progress, seen |-> null, awaited |-> TRUE]>>

\* startWatching (lines 259-367): the Start Compass button.  Either the
\* permission prompt of line 270 settles at once and the watch is registered in
\* the same step, or the call stays suspended at the await.
StartWatching(prompt) ==
    /\ mounted /\ ~isComplete /\ ~watching
    /\ nextWatchId + Len(pendingStarts) <= MaxWatches
    /\ IF prompt
       THEN /\ pendingStarts' = Append(pendingStarts,
                                       [item |-> currentItem, unlocking |-> unlocking])
            /\ UNCHANGED <<watchId, nextWatchId>>
            /\ Render(currentItem, distance, TRUE, unlocking, scheduleStatus,
                      fetcherState, FALSE, watches, watchId)
       ELSE /\ watchId' = nextWatchId
            /\ nextWatchId' = nextWatchId + 1
            /\ UNCHANGED pendingStarts
            /\ Render(currentItem, distance, TRUE, unlocking, scheduleStatus,
                      fetcherState, FALSE,
                      watches \cup {[id |-> nextWatchId, item |-> currentItem,
                                     unlocking |-> unlocking]}, nextWatchId)
    /\ UNCHANGED <<items, now, position, error, requests, storedProgress>>
    /\ UNCHANGED harnessVars

\* startWatching resumes after the await of line 270: line 298 registers the watch
PermissionSettled(k) ==
    /\ k \in DOMAIN pendingStarts
    /\ watchId' = nextWatchId
    /\ nextWatchId' = nextWatchId + 1
    /\ watches' = watches \cup {[id |-> nextWatchId, item |-> pendingStarts[k].item,
                                 unlocking |-> pendingStarts[k].unlocking]}
    /\ pendingStarts' = [i \in 1..(Len(pendingStarts) - 1) |->
                            IF i < k THEN pendingStarts[i] ELSE pendingStarts[i + 1]]
    /\ UNCHANGED <<items, now, position, error, currentItem, distance, watching,
                   unlocking, scheduleStatus, interval, mounted, fetcherState,
                   requests, storedProgress, crashed>>
    /\ UNCHANGED harnessVars

\* stopWatching (lines 373-387): the Stop Compass button
StopWatching ==
    /\ mounted /\ ~isComplete /\ watching
    /\ watchId' = null
    /\ Render(currentItem, distance, FALSE, unlocking, scheduleStatus, fetcherState,
              FALSE, {x \in watches : x.id # watchId}, null)
    /\ UNCHANGED <<items, now, position, error, pendingStarts, requests,
                   storedProgress, nextWatchId>>
    /\ UNCHANGED harnessVars

\* lines 334, 341, 350: the callback of a closure with item c and unlocking u
\* calls unlockNext, and lines 391: unlockNext goes on
SampleUnlocks(c, u, dist, status) ==
    /\ c < Len(items)
    /\ dist <= UnlockRadius
    /\ ~u
    /\ (status.set => status.open)

\* the callback with its distance and the status it set (NullStatus: none,
\* or getScheduleStatus threw into the catch of line 337)
SampleWith(x, p, dist, status) ==
    /\ SampleUnlocks(x.item, x.unlocking, dist, status) => Len(requests) < MaxRequests
    /\ IF SampleUnlocks(x.item, x.unlocking, dist, status)
       THEN Submit(x.item + 1)
       ELSE UNCHANGED requests
    /\ IF mounted
       THEN /\ position' = p
            /\ error' = FALSE
            /\ IF SampleUnlocks(x.item, x.unlocking, dist, status)
               THEN Render(x.item + 1,
                           IF x.item + 1 < Len(items) THEN null ELSE dist,
                           watching, TRUE, status, "submitting", FALSE, watches, watchId)
               ELSE Render(currentItem, dist, watching, unlocking, status,
                           fetcherState, FALSE, watches, watchId)
       ELSE /\ ComponentUnchanged
            /\ fetcherState' = IF SampleUnlocks(x.item, x.unlocking, dist, status)
                               THEN "submitting" ELSE fetcherState
            /\ UNCHANGED watches

\* lines 325-353: the status the callback sets
SampleStatus(scheduled, status) ==
    IF scheduled /\ ~status.threw THEN StatusOf(status) ELSE NullStatus

\* the success callback of watch x (lines 299-355) with a sample at p.  The
\* callback reads currentItem and unlocking of the render startWatching was
\* called in, and calls that render's unlockNext (lines 390-411).  The item of
\* a closure is below items.length, since Start Compass is not rendered once
\* the placelist is complete.
PositionSample(x, p) ==
    /\ x \in watches
    /\ SampleWith(x, p, calculateDistance(p, items[x.item + 1].location),
                  SampleStatus(items[x.item + 1].onlyDuring # <<>>,
                               IF items[x.item + 1].onlyDuring # <<>>
                               THEN getScheduleStatus(now, items[x.item + 1].onlyDuring)
                               ELSE [threw |-> TRUE]))
    /\ UNCHANGED <<items, now, watchId, pendingStarts, storedProgress, nextWatchId>>
    /\ UNCHANGED harnessVars

\* the error callback of watch x (lines 356-360)
PositionError(x) ==
    /\ x \in watches
    /\ IF mounted
       THEN /\ error' = TRUE
            /\ Render(currentItem, distance, FALSE, unlocking, scheduleStatus,
                      fetcherState, FALSE, watches, watchId)
            /\ UNCHANGED position
       ELSE /\ ComponentUnchanged
            /\ UNCHANGED <<fetcherState, watches>>
    /\ UNCHANGED <<items, now, watchId, pendingStarts, requests, storedProgress,
                   nextWatchId>>
    /\ UNCHANGED harnessVars

\* lines 642 and 654: the unlock button is rendered and not disabled
UnlockShown ==
    /\ mounted /\ ~isComplete /\ watching /\ ~error
    /\ distance # null /\ distance <= UnlockRadius
UnlockDisabled ==
    \/ unlocking
    \/ (HasSchedule(currentItem) /\ scheduleStatus.set /\ ~scheduleStatus.open)

\* the unlock button calls unlockNext (lines 390-411) of the current render
UnlockPressed ==
    /\ UnlockShown /\ ~UnlockDisabled
    /\ Len(requests) < MaxRequests
    /\ Submit(currentItem + 1)
    /\ Render(currentItem + 1,
              IF currentItem + 1 < Len(items) THEN null ELSE distance,
              watching, TRUE, scheduleStatus, "submitting", FALSE, watches, watchId)
    /\ UNCHANGED <<items, now, position, error, watchId, pendingStarts,
                   storedProgress, nextWatchId>>
    /\ UNCHANGED harnessVars

\* lines 442-443 with the status getScheduleStatus gave, or its throw
TickWith(status) ==
    IF status.threw
    THEN /\ crashed' = TRUE
         /\ UNCHANGED scheduleStatus
    ELSE /\ scheduleStatus' = IF mounted THEN StatusOf(status) ELSE scheduleStatus
         /\ UNCHANGED crashed

\* the callback of setInterval (lines 440-448), which closes over the current
\* item of the render that set it; getScheduleStatus throwing escapes it
Tick ==
    /\ interval # NoInterval
    /\ TickWith(getScheduleStatus(now, items[interval + 1].onlyDuring))
    /\ UNCHANGED <<items, now, position, error, currentItem, distance, watching,
                   unlocking, watchId, watches, pendingStarts, interval, mounted,
                   fetcherState, requests, storedProgress, nextWatchId>>
    /\ UNCHANGED harnessVars

\* the clock moves to another instant.  The instants are hours apart, so an
\* interval that is set (every 60000 ms, line 448) has come due and its
\* callback runs at the new instant.
AdvanceTime(t) ==
    /\ t # now
    /\ now' = t
    /\ IF interval # NoInterval
       THEN TickWith(getScheduleStatus(t, items[interval + 1].onlyDuring))
       ELSE UNCHANGED <<scheduleStatus, crashed>>
    /\ UNCHANGED <<items, position, error, currentItem, distance, watching, unlocking,
                   watchId, watches, pendingStarts, interval, mounted,
                   fetcherState, requests, storedProgress, nextWatchId>>
    /\ UNCHANGED harnessVars

\* the action (lines 126-149) reads the session: getSessionWithUser, line 127
ServerRead(k) ==
    /\ k \in DOMAIN requests
    /\ requests[k].seen = null
    /\ requests' = [requests EXCEPT ![k].seen = storedProgress]
    /\ UNCHANGED <<items, now, position, error, currentItem, distance, watching,
                   unlocking, scheduleStatus, watchId, watches, pendingStarts,
                   interval, mounted, fetcherState, storedProgress, nextWatchId,
                   crashed>>
    /\ UNCHANGED harnessVars

\* the action compares and writes (lines 144-148) and answers; the fetcher that
\* awaits the answer revalidates the loader and goes back to idle
ServerWrite(k) ==
    /\ k \in DOMAIN requests
    /\ requests[k].seen # null
    /\ storedProgress' = IF requests[k].progress > requests[k].seen
                         THEN requests[k].progress ELSE storedProgress
    /\ requests' = [i \in 1..(Len(requests) - 1) |->
                        IF i < k THEN requests[i] ELSE requests[i + 1]]
    /\ IF requests[k].awaited /\ mounted
       THEN Render(currentItem, distance, watching, unlocking, scheduleStatus,
                   "idle", TRUE, watches, watchId)
       ELSE /\ UNCHANGED <<currentItem, distance, watching, unlocking, scheduleStatus,
                           interval, crashed, mounted, watches>>
            /\ fetcherState' = IF requests[k].awaited THEN "idle" ELSE fetcherState
    /\ UNCHANGED <<items, now, position, error, watchId, pendingStarts, nextWatchId>>
    /\ UNCHANGED harnessVars

\* the component unmounts: the cleanups of lines 414-424 and 454 run
Unmount ==
    /\ mounted
    /\ mounted' = FALSE
    /\ watches' = {x \in watches : x.id # watchId}
    /\ interval' = NoInterval
    /\ UNCHANGED <<items, now, position, error, currentItem, distance, watching,
                   unlocking, scheduleStatus, watchId, pendingStarts, fetcherState,
                   requests, storedProgress, nextWatchId, crashed>>
    /\ UNCHANGED harnessVars

(***************************************************************************)
(* The actions of the routes under /placelists and the Placelist table     *)
(*                                                                         *)
(* A request carries the user of its session cookie (NoUser when getUser   *)
(* returns null), the id of the route and its form.  Of the submitted      *)
(* placelist text only what the action does with it is kept: it is blank,  *)
(* parsePlacelistText throws on it, returns no item or returns items.      *)
(***************************************************************************)
Users == {"alice", "bob"}
NoUser == "none"
PlacelistIds == {1, 2}
FormNames == {"", "renamed"}
FormTexts == {"blank", "throws", "empty", "items"}
Intents == {"delete", "createSession", "other"}

\* a row of the table, and the place of a row that does not exist
Row(authorId, name, rowItems) ==
    [present |-> TRUE, authorId |-> authorId, name |-> name, items |-> rowItems]
NoRow == [present |-> FALSE, authorId |-> NoUser, name |-> "", items |-> ""]

\* no user signed up and the play session owned by nobody
AccountsIdle ==
    /\ users = <<>>
    /\ sessionUserId = null

\* the placelist editor not rendered
EditorIdle ==
    /\ parsedItems = <<>>
    /\ textAreaValue = <<>>
    /\ newEntrySpotifyUrl = <<>>
    /\ isGettingLocation = FALSE
    /\ locationRequests = <<>>

\* nothing stored, no editor
StoreIdle ==
    /\ placelists = [id \in PlacelistIds |-> NoRow]
    /\ AccountsIdle
    /\ EditorIdle

Request(route, user, id, intent, name, text) ==
    [route |-> route, user |-> user, id |-> id, intent |-> intent, name |-> name,
     text |-> text]
Response(status) == [called |-> TRUE, status |-> status]

\* lines 46-91 of $id.edit.tsx: the form is validated, and a valid form updated
EditForm(id, name, text) ==
    IF name = "" \/ text \in {"blank", "throws", "empty"}
    THEN /\ returned' = Response(400)
         /\ UNCHANGED placelists
    ELSE /\ placelists' = [placelists EXCEPT ![id].name = name, ![id].items = "submitted"]
         /\ returned' = Response(302)

\* the action of placelists/:id/edit that requires the user and checks the
\* author (lines 32-45) before it reads the form
EditAction(user, id, name, text) ==
    /\ arg' = Request("edit", user, id, "", name, text)
    /\ IF user = NoUser
       THEN /\ returned' = Response(302)
            /\ UNCHANGED placelists
       ELSE IF ~placelists[id].present
       THEN /\ returned' = Response(404)
            /\ UNCHANGED placelists
       ELSE IF placelists[id].authorId # user
       THEN /\ returned' = Response(403)
            /\ UNCHANGED placelists
       ELSE EditForm(id, name, text)
    /\ UNCHANGED <<schedVars, localZone, playerVars, users, sessionUserId, editorVars>>

\* the action of app/routes/placelists/$id.edit.tsx (lines 23-72), which reads
\* no session
AppEditAction(user, id, name, text) ==
    /\ arg' = Request("edit", user, id, "", name, text)
    /\ IF ~placelists[id].present
       THEN /\ returned' = Response(404)
            /\ UNCHANGED placelists
       ELSE EditForm(id, name, text)
    /\ UNCHANGED <<schedVars, localZone, playerVars, users, sessionUserId, editorVars>>

\* the action of app/routes/placelists/$id.tsx (lines 15-36), which reads no
\* session; the UserSession table is left out
DetailAction(user, id, intent) ==
    /\ arg' = Request("detail", user, id, intent, "", "")
    /\ IF ~placelists[id].present
       THEN /\ returned' = Response(404)
            /\ UNCHANGED placelists
       ELSE IF intent = "delete"
       THEN /\ placelists' = [placelists EXCEPT ![id] = NoRow]
            /\ returned' = Response(302)
       ELSE IF intent = "createSession"
       THEN /\ returned' = Response(302)
            /\ UNCHANGED placelists
       ELSE /\ returned' = Response(200)
            /\ UNCHANGED placelists
    /\ UNCHANGED <<schedVars, localZone, playerVars, users, sessionUserId, editorVars>>

(***************************************************************************)
(* Specifications                                                          *)
(***************************************************************************)
\* the player as the loader hands it a session with no progress
PlayerInit ==
    /\ items \in PlayerPlacelists
    /\ now \in PlayerInstants
    /\ position = null
    /\ error = FALSE
    /\ storedProgress = 0
    /\ currentItem = 0
    /\ distance = null
    /\ watching = FALSE
    /\ unlocking = FALSE
    /\ scheduleStatus = NullStatus
    /\ watchId = null
    /\ watches = {}
    /\ pendingStarts = <<>>
    /\ interval = NoInterval
    /\ mounted = TRUE
    /\ fetcherState = "idle"
    /\ requests = <<>>
    /\ nextWatchId = 1
    /\ crashed = FALSE

\* before the call of a function
NoReturn == [called |-> FALSE]

\* no call of a single function
CallIdle ==
    /\ arg = <<>>
    /\ returned = NoReturn

\* no call of the schedule engine's harness
HarnessIdle ==
    /\ CallIdle
    /\ StoreIdle
    /\ schedule = <<>>
    /\ parseResult = NoParse
    /\ date = 0
    /\ result = NoResult

\* no player
PlayerOff ==
    /\ items = <<>>
    /\ now = 0
    /\ position = null
    /\ error = FALSE
    /\ storedProgress = 0
    /\ currentItem = 0
    /\ distance = null
    /\ watching = FALSE
    /\ unlocking = FALSE
    /\ scheduleStatus = NullStatus
    /\ watchId = null
    /\ watches = {}
    /\ pendingStarts = <<>>
    /\ interval = NoInterval
    /\ mounted = FALSE
    /\ fetcherState = "idle"
    /\ requests = <<>>
    /\ nextWatchId = 1
    /\ crashed = FALSE

\* no player and nothing stored
PlayerIdle == PlayerOff /\ StoreIdle

Init ==
    /\ PlayerInit
    /\ localZone = UTC
    /\ HarnessIdle

Next ==
    \/ \E prompt \in BOOLEAN : StartWatching(prompt)
    \/ \E k \in DOMAIN pendingStarts : PermissionSettled(k)
    \/ StopWatching
    \/ \E x \in watches, p \in Positions : PositionSample(x, p)
    \/ \E x \in watches : PositionError(x)
    \/ UnlockPressed
    \/ Tick
    \/ \E t \in PlayerInstants : AdvanceTime(t)
    \/ \E k \in DOMAIN requests : ServerRead(k)
    \/ \E k \in DOMAIN requests : ServerWrite(k)
    \/ Unmount

\* the player
Spec == Init /\ [][Next]_vars

\* parseSchedule on every schedule text
ParseInit ==
    /\ schedule \in ScheduleTexts
    /\ localZone \in LocalZones
    /\ parseResult = NoParse
    /\ date = 0
    /\ result = NoResult
    /\ PlayerIdle
    /\ CallIdle

ParseNext == Parse

ParseSpec == ParseInit /\ [][ParseNext]_vars

\* getScheduleStatus on the corpus, at every instant of the grid
EvalInit ==
    /\ schedule \in CorpusTexts
    /\ localZone \in LocalZones
    /\ parseResult = NoParse
    /\ date = 0
    /\ result = NoResult
    /\ PlayerIdle
    /\ CallIdle

EvalNext == \E d \in Instants : Evaluate(d)

EvalSpec == EvalInit /\ [][EvalNext]_vars

(***************************************************************************)
(* The placelist text parsers of app/lib/spotify.ts                        *)
(*                                                                         *)
(* A text is a sequence of characters with "\n" between its lines.  A      *)
(* number is kept as its sign, its integer part and the digits of its      *)
(* fraction without trailing zeros.                                        *)
(***************************************************************************)
\* String.prototype.includes
includes(s, sub) == \E i \in 1..Len(s) : OccursAt(s, sub, i)

\* [a-zA-Z0-9]
IsAlnum(c) == IsDigit(c) \/ IsLetter(c)

\* the digits of s from index p on: how many there are
DigitsFrom(s, p) == Cardinality({k \in p..Len(s) : \A j \in p..k : IsDigit(s[j])})

\* -?\d+\.?\d* from index p: the index after it, 0 when it does not match
AfterSign(s, p) == IF CharAt(s, p) = "-" THEN p + 1 ELSE p
AfterPoint(s, q) == IF CharAt(s, q) = "." THEN q + 1 + DigitsFrom(s, q + 1) ELSE q
AfterInt(s, q) == IF DigitsFrom(s, q) = 0 THEN 0 ELSE AfterPoint(s, q + DigitsFrom(s, q))
AfterNumber(s, p) == AfterInt(s, AfterSign(s, p))

\* /^-?\d+\.?\d*,-?\d+\.?\d*$/ : the index of its comma, 0 when there is no match
CommaOf(line, q) ==
    IF q # 0 /\ CharAt(line, q) = "," /\ AfterNumber(line, q + 1) = Len(line) + 1
    THEN q ELSE 0
CoordinateComma(line) == CommaOf(line, AfterNumber(line, 1))

\* line 140: the line looks like a location
IsCoordinateLine(line) == includes(line, <<",">>) /\ CoordinateComma(line) # 0

\* the digits of a fraction without its trailing zeros
TrimZeros(ds) ==
    IF \E i \in DOMAIN ds : ds[i] # "0"
    THEN SubSeq(ds, 1, MaxOf({i \in DOMAIN ds : ds[i] # "0"}))
    ELSE <<>>

\* Number(text) for a text of the form -?\d+\.?\d*
NumberParts(neg, ds, frac) ==
    [neg |-> neg /\ (parseInt(ds) # 0 \/ TrimZeros(frac) # <<>>),
     int |-> parseInt(ds), frac |-> TrimZeros(frac)]
NumberFrom(s, p) ==
    NumberParts(p = 2, SubSeq(s, p, p + DigitsFrom(s, p) - 1),
                SubSeq(s, p + DigitsFrom(s, p) + 1, Len(s)))
Number(s) == NumberFrom(s, AfterSign(s, 1))

\* line 143: line.split(",").map(Number)
LocationAt(line, comma) ==
    [lat |-> Number(SubSeq(line, 1, comma - 1)),
     lng |-> Number(SubSeq(line, comma + 1, Len(line)))]
LocationOf(line) == LocationAt(line, CoordinateComma(line))

SpotifyCom == <<"s","p","o","t","i","f","y",".","c","o","m">>
SpotifyComTrack == SpotifyCom \o <<"/","t","r","a","c","k","/">>
SpotifyTrack == <<"s","p","o","t","i","f","y",":","t","r","a","c","k",":">>

\* lines 149, 175: the line is a Spotify URL
IsTrackLine(line) == includes(line, SpotifyCom) \/ includes(line, SpotifyTrack)

\* the first match of prefix followed by ([a-zA-Z0-9]+): group 1, or null
IdRunFrom(url, p) ==
    SubSeq(url, p, p - 1 + Cardinality({k \in p..Len(url) : \A j \in p..k : IsAlnum(url[j])}))
IdAfter(url, prefix, starts) ==
    IF starts = {} THEN null ELSE IdRunFrom(url, MinOf(starts) + Len(prefix))
IdMatch(url, prefix) ==
    IdAfter(url, prefix,
            {i \in 1..Len(url) : OccursAt(url, prefix, i) /\ IsAlnum(CharAt(url, i + Len(prefix)))})

\* extractSpotifyTrackId of utils.ts
extractSpotifyTrackId(spotifyUrl) ==
    IF includes(spotifyUrl, SpotifyComTrack) THEN IdMatch(spotifyUrl, SpotifyComTrack)
    ELSE IF includes(spotifyUrl, SpotifyTrack) THEN IdMatch(spotifyUrl, SpotifyTrack)
    ELSE null

\* a PlacelistItem; absent: the item has no onlyDuring
absent == <<>>
NoNumber == [neg |-> FALSE, int |-> null, frac |-> <<>>]
NoLocation == [lat |-> NoNumber, lng |-> NoNumber]
LegacyItem(location, line) ==
    [location |-> location, spotifyUrl |-> line,
     trackId |-> extractSpotifyTrackId(line), onlyDuring |-> absent]

\* lines 129-131: the trimmed lines that are not empty
FilteredLines(textContent) ==
    SelectSeq([i \in DOMAIN split(textContent, <<"\n">>) |->
                  trim(split(textContent, <<"\n">>)[i])],
              LAMBDA line : Len(line) > 0)

\* the loop of lines 137-187 from line i on (counted from 1)
RECURSIVE LegacyFrom(_, _, _, _)
LegacyFrom(lines, i, found, currentLocation) ==
    IF i > Len(lines) THEN found
    ELSE IF IsCoordinateLine(lines[i])
    THEN IF i + 1 <= Len(lines) /\ IsTrackLine(lines[i + 1])
         THEN LegacyFrom(lines, i + 2,
                         Append(found, LegacyItem(LocationOf(lines[i]), lines[i + 1])),
                         currentLocation)
         ELSE LegacyFrom(lines, i + 1, found, LocationOf(lines[i]))
    ELSE IF currentLocation # NoLocation /\ IsTrackLine(lines[i])
    THEN LegacyFrom(lines, i + 1, Append(found, LegacyItem(currentLocation, lines[i])),
                    NoLocation)
    ELSE LegacyFrom(lines, i + 1, found, currentLocation)

\* the loop of lines 137-187 again, keeping for every pushed item the numbers
\* of the two lines it was made of; pending is the number of the line held in
\* currentLocation (0: null).  This variant forgets no pending line once it is
\* used, as a loop without the reset of line 183 would.
RECURSIVE LegacyPairsKeeping(_, _, _, _)
LegacyPairsKeeping(lines, i, pairs, pending) ==
    IF i > Len(lines) THEN pairs
    ELSE IF IsCoordinateLine(lines[i])
    THEN IF i + 1 <= Len(lines) /\ IsTrackLine(lines[i + 1])
         THEN LegacyPairsKeeping(lines, i + 2, Append(pairs, <<i, i + 1>>), pending)
         ELSE LegacyPairsKeeping(lines, i + 1, pairs, i)
    ELSE IF pending # 0 /\ IsTrackLine(lines[i])
    THEN LegacyPairsKeeping(lines, i + 1, Append(pairs, <<pending, i>>), pending)
    ELSE LegacyPairsKeeping(lines, i + 1, pairs, pending)

\* the loop of lines 137-187 from line i on, as pairs of line numbers
RECURSIVE LegacyPairsFrom(_, _, _, _)
LegacyPairsFrom(lines, i, pairs, pending) ==
    IF i > Len(lines) THEN pairs
    ELSE IF IsCoordinateLine(lines[i])
    THEN IF i + 1 <= Len(lines) /\ IsTrackLine(lines[i + 1])
         THEN LegacyPairsFrom(lines, i + 2, Append(pairs, <<i, i + 1>>), pending)
         ELSE LegacyPairsFrom(lines, i + 1, pairs, i)
    ELSE IF pending # 0 /\ IsTrackLine(lines[i])
    THEN LegacyPairsFrom(lines, i + 1, Append(pairs, <<pending, i>>), 0)
    ELSE LegacyPairsFrom(lines, i + 1, pairs, pending)

\* the items pushed for the pairs (lines 150-154 and 175-179)
ItemsOfPairs(lines, pairs) ==
    [k \in DOMAIN pairs |-> LegacyItem(LocationOf(lines[pairs[k][1]]), lines[pairs[k][2]])]

\* parseTraditionalFormat (lines 122-195); nothing in its try block throws
parseTraditionalFormat(textContent) ==
    IF textContent = <<>> THEN <<>>
    ELSE LegacyFrom(FilteredLines(textContent), 1, <<>>, NoLocation)

(***************************************************************************)
(* yaml.load and yaml.dump (js-yaml 4) as spotify.ts uses them             *)
(*                                                                         *)
(* The documents are those of the block style yaml.dump writes: a block    *)
(* sequence of block mappings whose values are scalars or block mappings,  *)
(* and "[]".  Scalars are plain, single-quoted or double-quoted without    *)
(* escapes, on one line or folded over several; numbers are decimal.  Flow *)
(* collections other than "[]", anchors, tags, block scalars, document     *)
(* markers, a sequence as the value of a key and comments after a quoted   *)
(* scalar are not covered.                                                 *)
(*                                                                         *)
(* A loaded value carries its JavaScript type in its kind; "error" stands  *)
(* for the YAMLException the loader throws.                                *)
(***************************************************************************)
Zero == [neg |-> FALSE, int |-> 0, frac |-> <<>>]
One == [neg |-> FALSE, int |-> 1, frac |-> <<>>]
\* the number NaN
NaN == [neg |-> FALSE, int |-> 0 - 2, frac |-> <<>>]
isNaN(n) == n = NaN

Node(kind, str, num) == [kind |-> kind, str |-> str, num |-> num]
Undefined == Node("undefined", <<>>, NoNumber)
YamlNull == Node("null", <<>>, NoNumber)
Bool(b) == Node("boolean", <<>>, IF b THEN One ELSE Zero)
Num(n) == Node("number", <<>>, n)
Str(s) == Node("string", s, NoNumber)
Mapping == Node("object", <<>>, NoNumber)
Failure == Node("error", <<>>, NoNumber)

\* [-+]?[0-9]+(\.[0-9]*)? : the decimal integers and floats of the core schema,
\* and the decimal literals of Number(string)
IsNumeric(s) ==
    \/ CharAt(s, 1) \in {"-", "+"} /\ AfterInt(s, 2) = Len(s) + 1
    \/ AfterInt(s, 1) = Len(s) + 1
NumericValue(s) == IF CharAt(s, 1) = "+" THEN Number(Tail(s)) ELSE Number(s)

NullTexts == {<<>>, <<"~">>, <<"n","u","l","l">>, <<"N","u","l","l">>, <<"N","U","L","L">>}
TrueTexts == {<<"t","r","u","e">>, <<"T","r","u","e">>, <<"T","R","U","E">>}
FalseTexts == {<<"f","a","l","s","e">>, <<"F","a","l","s","e">>, <<"F","A","L","S","E">>}

\* the implicit type of a plain scalar (core schema)
ResolveScalar(s) ==
    IF s \in NullTexts THEN YamlNull
    ELSE IF s \in TrueTexts THEN Bool(TRUE)
    ELSE IF s \in FalseTexts THEN Bool(FALSE)
    ELSE IF IsNumeric(s) THEN Num(NumericValue(s))
    ELSE Str(s)

\* the inside of a single-quoted scalar: every quote is doubled
RECURSIVE ValidSingle(_)
ValidSingle(inner) ==
    IF inner = <<>> THEN TRUE
    ELSE IF inner[1] # "'" THEN ValidSingle(Tail(inner))
    ELSE Len(inner) >= 2 /\ inner[2] = "'" /\ ValidSingle(SubSeq(inner, 3, Len(inner)))

RECURSIVE Unquote(_)
Unquote(inner) ==
    IF inner = <<>> THEN <<>>
    ELSE IF inner[1] = "'" THEN <<"'">> \o Unquote(SubSeq(inner, 3, Len(inner)))
    ELSE <<inner[1]>> \o Unquote(Tail(inner))

Inner(s) == SubSeq(s, 2, Len(s) - 1)

\* a plain scalar ends where a comment starts
CommentCut(s, i) == IF i = 0 THEN s ELSE trim(SubSeq(s, 1, i - 1))
StripComment(s) == CommentCut(s, FirstIndex(s, <<" ", "#">>))

\* a plain scalar holds no ": " and does not end with ":"
PlainScalar(t) ==
    IF includes(t, <<":", " ">>) \/ CharAt(t, Len(t)) = ":" THEN Failure
    ELSE ResolveScalar(t)

\* the value of the text of a scalar
LoadScalar(s) ==
    IF s = <<>> THEN YamlNull
    ELSE IF s[1] = "'"
    THEN IF Len(s) >= 2 /\ s[Len(s)] = "'" /\ ValidSingle(Inner(s))
         THEN Str(Unquote(Inner(s))) ELSE Failure
    ELSE IF s[1] = "\""
    THEN IF Len(s) >= 2 /\ s[Len(s)] = "\"" /\ "\"" \notin Range(Inner(s))
            /\ "\\" \notin Range(Inner(s))
         THEN Str(Inner(s)) ELSE Failure
    ELSE PlainScalar(StripComment(s))

\* Array.prototype.join
RECURSIVE join(_, _)
join(parts, sep) ==
    IF Len(parts) = 0 THEN <<>>
    ELSE IF Len(parts) = 1 THEN parts[1]
    ELSE parts[1] \o sep \o join(Tail(parts), sep)

\* a line of a document: its indentation and what stands after it
IndentOf(line) == Cardinality({k \in 1..Len(line) : \A j \in 1..k : line[j] = " "})
YamlLine(line) == [indent |-> IndentOf(line), content |-> trim(line)]
IsContent(l) == l.content # <<>> /\ l.content[1] # "#"

\* the lines of a document that are neither blank nor comments
ContentLines(text) ==
    SelectSeq([i \in DOMAIN split(text, <<"\n">>) |-> YamlLine(split(text, <<"\n">>)[i])],
              IsContent)
ContentsOf(ls) == [i \in DOMAIN ls |-> ls[i].content]

\* "key: value" or "key:" : the index of the colon that ends the key, else 0
KeyColons(c) == {i \in 2..Len(c) : c[i] = ":" /\ (i = Len(c) \/ c[i + 1] = " ")}
KeyEnd(c) == IF KeyColons(c) = {} THEN 0 ELSE MinOf(KeyColons(c))
IsMappingLine(c) == KeyEnd(c) # 0 /\ c[1] \notin {"'", "\""}
KeyOf(l) == trim(SubSeq(l.content, 1, KeyEnd(l.content) - 1))
InlineOf(l) == trim(SubSeq(l.content, KeyEnd(l.content) + 1, Len(l.content)))

\* "- value" or "-" : an entry of a block sequence
IsEntry(c) == c = <<"-">> \/ OccursAt(c, <<"-", " ">>, 1)
\* what follows the dash, as a line of its own
EntryRest(l) ==
    [indent |-> l.indent + MinOf({k \in 2..Len(l.content) : l.content[k] # " "}) - 1,
     content |-> trim(Tail(l.content))]

\* the lines after line i that are indented deeper than it
LaterOutdents(ls, i) == {j \in (i + 1)..Len(ls) : ls[j].indent <= ls[i].indent}
GroupEnd(ls, i) ==
    IF LaterOutdents(ls, i) = {} THEN Len(ls) ELSE MinOf(LaterOutdents(ls, i)) - 1
Nested(ls, i) == SubSeq(ls, i + 1, GroupEnd(ls, i))

\* the lines of a block that stand at the indentation of its first line
KeyLines(ls) == {i \in DOMAIN ls : ls[i].indent = ls[1].indent}

\* a block mapping: no line left of the first, a key on every line at its
\* indentation, no key twice
MappingShape(ls) ==
    /\ \A k \in DOMAIN ls : ls[k].indent >= ls[1].indent
    /\ \A i \in KeyLines(ls) : IsMappingLine(ls[i].content)
    /\ \A i, j \in KeyLines(ls) : KeyOf(ls[i]) = KeyOf(ls[j]) => i = j

\* the value of a block of lines, and of the entry of a mapping at line i;
\* of a mapping only the kind is kept
RECURSIVE BlockValue(_)
RECURSIVE EntryValue(_, _)
BlockValue(ls) ==
    IF ls = <<>> THEN YamlNull
    ELSE IF IsMappingLine(ls[1].content)
    THEN IF MappingShape(ls) /\ \A i \in KeyLines(ls) : EntryValue(ls, i).kind # "error"
         THEN Mapping ELSE Failure
    ELSE LoadScalar(join(ContentsOf(ls), <<" ">>))

EntryValue(ls, i) ==
    IF InlineOf(ls[i]) = <<>> THEN BlockValue(Nested(ls, i))
    ELSE LoadScalar(join(<<InlineOf(ls[i])>> \o ContentsOf(Nested(ls, i)), <<" ">>))

\* the lines of a block mapping with the key
LinesOfKey(ls, key) ==
    IF ls # <<>> /\ BlockValue(ls).kind = "object"
    THEN {i \in KeyLines(ls) : KeyOf(ls[i]) = key} ELSE {}

\* value.key of a loaded value
ValueAt(ls, at) == IF at = {} THEN Undefined ELSE EntryValue(ls, MinOf(at))
Get(ls, key) == ValueAt(ls, LinesOfKey(ls, key))

\* the lines of the mapping that is value.key
BlockAt(ls, at) ==
    IF at # {} /\ InlineOf(ls[MinOf(at)]) = <<>> /\ EntryValue(ls, MinOf(at)).kind = "object"
    THEN Nested(ls, MinOf(at)) ELSE <<>>
GetBlock(ls, key) == BlockAt(ls, LinesOfKey(ls, key))

\* what parseYamlFormat reads of an element of the document
LocationNode(kind, ls) ==
    [kind |-> kind, lat |-> Get(ls, <<"l","a","t">>), lng |-> Get(ls, <<"l","n","g">>)]
ItemNode(ls) ==
    [kind |-> BlockValue(ls).kind,
     location |-> LocationNode(Get(ls, <<"l","o","c","a","t","i","o","n">>).kind, GetBlock(ls, <<"l","o","c","a","t","i","o","n">>)),
     spotifyUrl |-> Get(ls, <<"s","p","o","t","i","f","y","U","r","l">>),
     onlyDuring |-> Get(ls, <<"o","n","l","y","D","u","r","i","n","g">>)]

\* the lines of the entry of a block sequence that starts at line i
EntryBlock(ls, i) ==
    (IF ls[i].content = <<"-">> THEN <<>> ELSE <<EntryRest(ls[i])>>) \o Nested(ls, i)
NthOf(S, n) == CHOOSE i \in S : Cardinality({j \in S : j <= i}) = n

\* a block sequence: no line left of the first, a dash on every line at its
\* indentation
SequenceShape(ls) ==
    /\ \A k \in DOMAIN ls : ls[k].indent >= ls[1].indent
    /\ \A i \in KeyLines(ls) : IsEntry(ls[i].content)

Elements(ls) ==
    [n \in 1..Cardinality(KeyLines(ls)) |-> ItemNode(EntryBlock(ls, NthOf(KeyLines(ls), n)))]

Loaded(threw, isArray, elems) == [threw |-> threw, isArray |-> isArray, elems |-> elems]
LoadedArray(elems) ==
    Loaded(\E n \in DOMAIN elems : elems[n].kind = "error", TRUE, elems)

\* yaml.load on the lines of a document
LoadLines(ls) ==
    IF ls = <<>> THEN Loaded(FALSE, FALSE, <<>>)
    ELSE IF Len(ls) = 1 /\ ls[1].content = <<"[", "]">> THEN Loaded(FALSE, TRUE, <<>>)
    ELSE IF IsEntry(ls[1].content)
    THEN IF SequenceShape(ls) THEN LoadedArray(Elements(ls))
         ELSE Loaded(TRUE, FALSE, <<>>)
    ELSE Loaded(BlockValue(ls).kind = "error", FALSE, <<>>)

\* yaml.load
load(text) == LoadLines(ContentLines(text))

\* Number(value) of JavaScript
StringToNumber(t) ==
    IF t = <<>> THEN Zero ELSE IF IsNumeric(t) THEN NumericValue(t) ELSE NaN
ToNumber(node) ==
    IF node.kind \in {"number", "boolean"} THEN node.num
    ELSE IF node.kind = "null" THEN Zero
    ELSE IF node.kind = "string" THEN StringToNumber(trim(node.str))
    ELSE NaN

\* lines 229-248: the element makes the callback throw
ItemFails(item) ==
    \/ item.kind # "object"
    \/ item.location.kind # "object"
    \/ isNaN(ToNumber(item.location.lat))
    \/ isNaN(ToNumber(item.location.lng))
    \/ item.spotifyUrl.kind # "string"
    \/ item.spotifyUrl.str = <<>>

\* lines 251-261: the item built of an element
YamlItem(item) ==
    [location |-> [lat |-> ToNumber(item.location.lat),
                   lng |-> ToNumber(item.location.lng)],
     spotifyUrl |-> item.spotifyUrl.str,
     trackId |-> extractSpotifyTrackId(item.spotifyUrl.str),
     onlyDuring |-> IF item.onlyDuring.kind = "string" /\ item.onlyDuring.str # <<>>
                    THEN item.onlyDuring.str ELSE absent]

\* what a parser does: it throws, for the element at index when there is one,
\* or it returns value
Outcome(threw, index, value) == [threw |-> threw, index |-> index, value |-> value]
Thrown(index) == Outcome(TRUE, index, <<>>)

\* lines 218-262 on the loaded document; map stops at the first throw
Validate(elems, failing) ==
    IF failing # {} THEN Thrown(MinOf(failing) - 1)
    ELSE Outcome(FALSE, null, [n \in DOMAIN elems |-> YamlItem(elems[n])])
ParseLoaded(doc) ==
    IF doc.threw THEN Thrown(null)
    ELSE IF ~doc.isArray THEN Thrown(null)
    ELSE Validate(doc.elems, {n \in DOMAIN doc.elems : ItemFails(doc.elems[n])})

\* parseYamlFormat (lines 200-268)
parseYamlFormat(textContent) ==
    IF textContent = <<>> THEN Outcome(FALSE, null, <<>>)
    ELSE ParseLoaded(load(textContent))

\* a parser without the catch
NoFallback(structured, textContent) == structured

\* the try and catch of lines 278-296
Fallback(structured, textContent) ==
    IF structured.threw THEN Outcome(FALSE, null, parseTraditionalFormat(textContent))
    ELSE structured

\* parsePlacelistText (lines 273-297)
parsePlacelistText(textContent) ==
    IF textContent = <<>> THEN Outcome(FALSE, null, <<>>)
    ELSE Fallback(parseYamlFormat(textContent), textContent)

\* Number.prototype.toString of an integer that is not negative
RECURSIVE IntText(_)
IntText(n) == IF n < 10 THEN <<Digits[n + 1]>> ELSE IntText(n \div 10) \o <<Digits[(n % 10) + 1]>>

\* how yaml.dump writes a number
NumberText(n) ==
    (IF n.neg THEN <<"-">> ELSE <<>>) \o IntText(n.int)
        \o (IF n.frac = <<>> THEN <<>> ELSE <<".">> \o n.frac)

\* the characters a plain scalar may not start with
Indicators ==
    {"-", "?", ":", ",", "[", "]", "{", "}", "#", "&", "*", "!", "|", "=", ">", "'", "\"",
     "%", "@"}
DeprecatedBooleans ==
    {<<"y">>, <<"Y">>, <<"y","e","s">>, <<"Y","e","s">>, <<"Y","E","S">>, <<"o","n">>, <<"O","n">>, <<"O","N">>,
     <<"n">>, <<"N">>, <<"n","o">>, <<"N","o">>, <<"N","O">>, <<"o","f","f">>, <<"O","f","f">>, <<"O","F","F">>}

\* yaml.dump writes the string plain
PlainSafe(t) ==
    /\ t # <<>>
    /\ ~IsSpace(t[1]) /\ t[1] \notin Indicators
    /\ ~IsSpace(t[Len(t)]) /\ t[Len(t)] # ":"
    /\ \A i \in 2..Len(t) :
          /\ t[i] = "#" => ~IsSpace(t[i - 1])
          /\ IsSpace(t[i]) => t[i - 1] # ":"
    /\ t \notin DeprecatedBooleans
    /\ ResolveScalar(t).kind = "string"

RECURSIVE DoubleQuotes(_)
DoubleQuotes(t) ==
    IF t = <<>> THEN <<>>
    ELSE (IF t[1] = "'" THEN <<"'", "'">> ELSE <<t[1]>>) \o DoubleQuotes(Tail(t))

\* every string written plain
PlainText(t) == t

\* how yaml.dump writes a string of one short line
StringText(t) ==
    IF PlainSafe(t) THEN t ELSE <<"'">> \o DoubleQuotes(t) \o <<"'">>

\* how yaml.dump writes one yamlItem of lines 305-318
ItemText(item) ==
    <<"-"," ","l","o","c","a","t","i","o","n",":">> \o <<"\n">>
        \o <<" "," "," "," ","l","a","t",":"," ">> \o NumberText(item.location.lat) \o <<"\n">>
        \o <<" "," "," "," ","l","n","g",":"," ">> \o NumberText(item.location.lng) \o <<"\n">>
        \o <<" "," ","s","p","o","t","i","f","y","U","r","l",":"," ">> \o StringText(item.spotifyUrl) \o <<"\n">>
        \o (IF item.onlyDuring # absent
            THEN <<" "," ","o","n","l","y","D","u","r","i","n","g",":"," ">> \o StringText(item.onlyDuring) \o <<"\n">>
            ELSE <<>>)

\* yaml.dump of an array of yamlItems
RECURSIVE DumpItems(_)
DumpItems(yamlItems) ==
    IF yamlItems = <<>> THEN <<>> ELSE ItemText(Head(yamlItems)) \o DumpItems(Tail(yamlItems))
dump(yamlItems) == IF yamlItems = <<>> THEN <<"[", "]", "\n">> ELSE DumpItems(yamlItems)

\* formatAsYaml (lines 302-322)
formatAsYaml(placelistItems) == dump(placelistItems)

\* "X-Y" for every X and Y among the day tokens in upper, lower and mixed case
DayTokens ==
    UNION {{d, <<UpperLetters[IndexIn(LowerLetters, d[1])], UpperLetters[IndexIn(LowerLetters, d[2])]>>,
            <<UpperLetters[IndexIn(LowerLetters, d[1])], d[2]>>} : d \in Range(dayOrder)}
DayRangeTexts == {x \o <<"-">> \o y : x \in DayTokens, y \in DayTokens}

\* expandDayRange(arg) is called
ExpandCall ==
    /\ ~returned.called
    /\ returned' = [called |-> TRUE, value |-> expandDayRange(arg)]
    /\ UNCHANGED <<arg, schedVars, localZone, playerVars, storeVars, editorVars>>

\* expandDayRange on every day range
ExpandInit ==
    /\ arg \in DayRangeTexts
    /\ returned = NoReturn
    /\ localZone = UTC
    /\ schedule = <<>> /\ parseResult = NoParse /\ date = 0 /\ result = NoResult
    /\ PlayerIdle

ExpandNext == ExpandCall

ExpandSpec == ExpandInit /\ [][ExpandNext]_vars

\* the hours 0 to 24 in one or two digits, "09" and "99"
HourTexts ==
    {IF h < 10 THEN <<Digits[h + 1]>> ELSE <<Digits[(h \div 10) + 1], Digits[(h % 10) + 1]>> :
        h \in 0..24} \cup {<<"0","9">>, <<"9","9">>}
MinuteTexts == {<<>>, <<":","0","0">>, <<":","3","0">>, <<":","5","9">>, <<":","5">>}
MarkerTexts == {<<>>, <<"a","m">>, <<"p","m">>, <<"A","M">>, <<"P","M">>, <<"a">>, <<"P">>,
                <<" ","p","m">>, <<"x","m">>}
TimeTexts == {h \o m \o k : h \in HourTexts, m \in MinuteTexts, k \in MarkerTexts}

\* parseTime(arg) is called
TimeCall ==
    /\ ~returned.called
    /\ returned' = [called |-> TRUE] @@ parseTime(arg)
    /\ UNCHANGED <<arg, schedVars, localZone, playerVars, storeVars, editorVars>>

\* parseTime on every time text
TimeInit ==
    /\ arg \in TimeTexts
    /\ returned = NoReturn
    /\ localZone = UTC
    /\ schedule = <<>> /\ parseResult = NoParse /\ date = 0 /\ result = NoResult
    /\ PlayerIdle

TimeNext == TimeCall

TimeSpec == TimeInit /\ [][TimeNext]_vars

\* the lines the texts of the traditional format are made of
MaxLines == 4
LegacyLines ==
    { <<"1",",","2">>,
      <<" ","3",".","5","0",",","-","4"," ">>,
      SpotifyTrack \o <<"a","1">>,
      <<"h","t","t","p","s",":","/","/","o","p","e","n",".">> \o SpotifyComTrack
          \o <<"b","2","?","s","i","=","c">>,
      <<"x">>,
      <<>> }

LegacyTexts ==
    {join(ls, <<"\n">>) : ls \in UNION {[1..n -> LegacyLines] : n \in 0..MaxLines}}

\* one call of parseTraditionalFormat
LegacyCall ==
    /\ ~returned.called
    /\ returned' = [called |-> TRUE, value |-> parseTraditionalFormat(arg)]
    /\ UNCHANGED <<arg, schedVars, localZone, playerVars, storeVars, editorVars>>

\* parseTraditionalFormat on every text of up to MaxLines lines
LegacyInit ==
    /\ arg \in LegacyTexts
    /\ returned = NoReturn
    /\ localZone = UTC
    /\ schedule = <<>> /\ parseResult = NoParse /\ date = 0 /\ result = NoResult
    /\ PlayerIdle

LegacyNext == LegacyCall

LegacySpec == LegacyInit /\ [][LegacyNext]_vars

\* the lines the documents of the YAML format are made of; every line of an
\* element is indented by two spaces, the first then gets its dash
LatLines ==
    { <<>>, <<<<" "," "," "," ","l","a","t",":"," ","1">>>>, <<<<" "," "," "," ","l","a","t",":"," ","-","3",".","5","0">>>>, <<<<" "," "," "," ","l","a","t",":"," ","'","2","'">>>>, <<<<" "," "," "," ","l","a","t",":"," ","'"," ","7"," ","'">>>>,
      <<<<" "," "," "," ","l","a","t",":">>>>, <<<<" "," "," "," ","l","a","t",":"," ","~">>>>, <<<<" "," "," "," ","l","a","t",":"," ","n","u","l","l">>>>, <<<<" "," "," "," ","l","a","t",":"," ","'","'">>>>,
      <<<<" "," "," "," ","l","a","t",":"," ","a","b","c">>>>, <<<<" "," "," "," ","l","a","t",":"," ","'","1",",","2","'">>>>, <<<<" "," "," "," ","l","a","t",":"," ","t","r","u","e">>>>,
      <<<<" "," "," "," ","l","a","t",":">>, <<" "," "," "," "," "," ","d","e","g",":"," ","1">>>> }
LngLines == { <<>>, <<<<" "," "," "," ","l","n","g",":"," ","2">>>>, <<<<" "," "," "," ","l","n","g",":"," ","+","4",".">>>>, <<<<" "," "," "," ","l","n","g",":">>>>, <<<<" "," "," "," ","l","n","g",":"," ","e","a","s","t">>>> }
LocationLines ==
    { <<>>, <<<<" "," ","l","o","c","a","t","i","o","n",":">>>>, <<<<" "," ","l","o","c","a","t","i","o","n",":"," ","5">>>>, <<<<" "," ","l","o","c","a","t","i","o","n",":"," ","h","e","r","e">>>> }
UrlLines ==
    { <<>>, <<<<" "," ","s","p","o","t","i","f","y","U","r","l",":"," ","s","p","o","t","i","f","y",":","t","r","a","c","k",":","a","1">>>>,
      <<<<" "," ","s","p","o","t","i","f","y","U","r","l",":"," ","h","t","t","p","s",":","/","/","o","p","e","n",".","s","p","o","t","i","f","y",".","c","o","m","/","t","r","a","c","k","/","b","2","?","s","i","=","c">>>>,
      <<<<" "," ","s","p","o","t","i","f","y","U","r","l",":"," ","'","s","p","o","t","i","f","y",":","t","r","a","c","k",":"," ","a","1","'">>>>, <<<<" "," ","s","p","o","t","i","f","y","U","r","l",":"," ","'","1","2","'">>>>,
      <<<<" "," ","s","p","o","t","i","f","y","U","r","l",":"," ","1","2">>>>, <<<<" "," ","s","p","o","t","i","f","y","U","r","l",":">>>>, <<<<" "," ","s","p","o","t","i","f","y","U","r","l",":"," ","'","'">>>>,
      <<<<" "," ","s","p","o","t","i","f","y","U","r","l",":"," ","i","t","'","s"," ","s","p","o","t","i","f","y",":","t","r","a","c","k",":","a","1"," ","#","1">>>>,
      <<<<" "," ","s","p","o","t","i","f","y","U","r","l",":">>, <<" "," "," "," ","s","p","o","t","i","f","y",":","t","r","a","c","k",":","a","1">>>> }
DuringLines ==
    { <<>>, <<<<" "," ","o","n","l","y","D","u","r","i","n","g",":"," ","9","-","1","7"," ","(","M","O",")">>>>, <<<<" "," ","o","n","l","y","D","u","r","i","n","g",":"," ","9","-","1","2",","," ","1","3","-","1","7"," ","(","M","O","-","F","R",")"," ","P","S","T">>>>,
      <<<<" "," ","o","n","l","y","D","u","r","i","n","g",":"," ","'","t","r","u","e","'">>>>, <<<<" "," ","o","n","l","y","D","u","r","i","n","g",":"," ","t","r","u","e">>>>, <<<<" "," ","o","n","l","y","D","u","r","i","n","g",":"," ","5">>>>,
      <<<<" "," ","o","n","l","y","D","u","r","i","n","g",":"," ","'","5","'">>>>, <<<<" "," ","o","n","l","y","D","u","r","i","n","g",":"," ","'","a",":"," ","b","'">>>>, <<<<" "," ","o","n","l","y","D","u","r","i","n","g",":"," ","\"","o","n","\"">>>>,
      <<<<" "," ","o","n","l","y","D","u","r","i","n","g",":"," ","'","'">>>>, <<<<" "," ","o","n","l","y","D","u","r","i","n","g",":"," ","'","i","t","'","'","s","'">>>>, <<<<" "," ","o","n","l","y","D","u","r","i","n","g",":"," ","9","-","1","7"," ","#"," ","o","p","e","n">>>>,
      <<<<" "," ","o","n","l","y","D","u","r","i","n","g",":"," ","a",":"," ","b">>>>, <<<<" "," ","o","n","l","y","D","u","r","i","n","g",":"," ","'","o","p","e","n">>>> }

BaseLocation == <<<<" "," ","l","o","c","a","t","i","o","n",":">>, <<" "," "," "," ","l","a","t",":"," ","1">>, <<" "," "," "," ","l","n","g",":"," ","2">>>>
BaseUrl == <<<<" "," ","s","p","o","t","i","f","y","U","r","l",":"," ","s","p","o","t","i","f","y",":","t","r","a","c","k",":","a","1">>>>

\* the lines of an element with its dash
WithDash(ls) == <<<<"-", " ">> \o SubSeq(ls[1], 3, Len(ls[1]))>> \o Tail(ls)

\* elements that differ from a well-formed one in one place
ElementLines ==
    {WithDash(<<<<" "," ","l","o","c","a","t","i","o","n",":">>>> \o lat \o lng \o BaseUrl) :
        lat \in LatLines, lng \in LngLines}
    \cup {WithDash(loc \o url \o BaseLocation) : loc \in LocationLines \ {<<<<" "," ","l","o","c","a","t","i","o","n",":">>>>},
                                                 url \in {<<>>, BaseUrl}}
    \cup {WithDash(BaseLocation \o url \o during) : url \in UrlLines, during \in DuringLines}
    \cup { <<<<"-"," ","5">>>>, <<<<"-">>>>, <<<<"-"," ","a","b","c">>>>, <<<<"-"," "," "," ","s","p","o","t","i","f","y","U","r","l",":"," ","s","p","o","t","i","f","y",":","t","r","a","c","k",":","a","1">>,
                                             <<" "," "," "," ","l","o","c","a","t","i","o","n",":">>, <<" "," "," "," "," "," "," ","l","a","t",":"," ","1">>, <<" "," "," "," "," "," "," ","l","n","g",":"," ","2">>>>,
           <<<<"-"," ","l","o","c","a","t","i","o","n",":">>, <<" "," "," "," ","l","a","t",":"," ","1">>, <<" "," "," ","l","n","g",":"," ","2">>, <<" "," ","s","p","o","t","i","f","y","U","r","l",":"," ","s","p","o","t","i","f","y",":","t","r","a","c","k",":","a","1">>>>,
           <<<<"-"," ","l","o","c","a","t","i","o","n",":">>, <<" "," "," "," ","l","a","t",":"," ","1">>, <<" "," "," "," ","l","a","t",":"," ","2">>, <<" "," "," "," ","l","n","g",":"," ","2">>,
             <<" "," ","s","p","o","t","i","f","y","U","r","l",":"," ","s","p","o","t","i","f","y",":","t","r","a","c","k",":","a","1">>>> }

\* the elements the longer documents are made of
MaxItems == 2
CommonElements ==
    { WithDash(BaseLocation \o BaseUrl),
      WithDash(<<<<" "," ","l","o","c","a","t","i","o","n",":">>, <<" "," "," "," ","l","a","t",":"," ","-","3",".","5","0">>, <<" "," "," "," ","l","n","g",":"," ","4">>>>
               \o <<<<" "," ","s","p","o","t","i","f","y","U","r","l",":"," ","'","1","2","'">>, <<" "," ","o","n","l","y","D","u","r","i","n","g",":"," ","'","t","r","u","e","'">>>>),
      WithDash(<<<<" "," ","l","o","c","a","t","i","o","n",":">>, <<" "," "," "," ","l","a","t",":">>, <<" "," "," "," ","l","n","g",":"," ","2">>>> \o BaseUrl),
      WithDash(BaseLocation \o <<<<" "," ","o","n","l","y","D","u","r","i","n","g",":"," ","9","-","1","7"," ","(","M","O",")">>>>),
      <<<<"-"," ","5">>>> }

\* the lines of a sequence of elements
RECURSIVE Flatten(_)
Flatten(lss) == IF lss = <<>> THEN <<>> ELSE Head(lss) \o Flatten(Tail(lss))

\* documents that are no block sequence
OtherTexts ==
    { <<"[", "]">>, <<"[", "]", "\n">>, <<"x",":"," ","1">>, <<"a","b","c">>, <<" ", "\n">>, <<"#"," ","n","o","n","e">>,
      <<"3","7",".","7","7","4","9",",","-","1","2","2",".","4","1","9","4">> \o <<"\n">> \o <<"s","p","o","t","i","f","y",":","t","r","a","c","k",":","a","b","c","1","2","3">>,
      <<"-"," ","5">> \o <<"\n">> \o <<"x",":"," ","1">> }

DocumentTexts ==
    {join(ls, <<"\n">>) : ls \in ElementLines}
    \cup {join(Flatten(es), <<"\n">>) \o <<"\n">> :
             es \in UNION {[1..n -> CommonElements] : n \in 2..MaxItems}}
    \cup OtherTexts
    \cup {join(ls, <<"\n">>) : ls \in UNION {[1..n -> LegacyLines] : n \in 0..2}}

\* the steps of a text through the parsers
Parsed(by, outcome) == [called |-> TRUE, by |-> by, stage |-> "parsed"] @@ outcome
Reparsed(by, outcome, from) ==
    [called |-> TRUE, by |-> by, stage |-> "reparsed", from |-> from] @@ outcome

\* one call of parseYamlFormat
StructuredCall ==
    /\ ~returned.called
    /\ returned' = Parsed("parseYamlFormat", parseYamlFormat(arg))
    /\ UNCHANGED <<arg, schedVars, localZone, playerVars, storeVars, editorVars>>

\* the parse effect of the editor (PlacelistEditor.tsx, lines 722-735): arg is
\* textAreaValue; an exception of the parser would be caught here
EditorParse ==
    /\ ~returned.called
    /\ returned' = Parsed("parsePlacelistText", parsePlacelistText(arg))
    /\ UNCHANGED <<arg, schedVars, localZone, playerVars, storeVars, editorVars>>

\* formatAsYaml on the list a parser returned
Serialize ==
    /\ returned.called /\ returned.stage = "parsed" /\ ~returned.threw
    /\ arg' = formatAsYaml(returned.value)
    /\ returned' = [returned EXCEPT !.stage = "serialized"]
    /\ UNCHANGED <<schedVars, localZone, playerVars, storeVars, editorVars>>

\* the serialized text parsed again by the same parser
Reparse ==
    /\ returned.called /\ returned.stage = "serialized"
    /\ returned' = Reparsed(returned.by,
                            IF returned.by = "parseYamlFormat" THEN parseYamlFormat(arg)
                            ELSE parsePlacelistText(arg),
                            returned.value)
    /\ UNCHANGED <<arg, schedVars, localZone, playerVars, storeVars, editorVars>>

\* the parsers on every document
TextInit ==
    /\ arg \in DocumentTexts
    /\ returned = NoReturn
    /\ localZone = UTC
    /\ schedule = <<>> /\ parseResult = NoParse /\ date = 0 /\ result = NoResult
    /\ PlayerIdle

TextNext ==
    \/ StructuredCall
    \/ EditorParse
    \/ Serialize
    \/ Reparse

TextSpec == TextInit /\ [][TextNext]_vars

\* the instant and the schedule go to a system whose local zone is z, as from
\* the server that renders the page to the browser that runs the player
Relocate(z) ==
    /\ result.called /\ ~returned.called
    /\ z # localZone
    /\ localZone' = z
    /\ UNCHANGED <<schedVars, callVars, playerVars, storeVars, editorVars>>

\* getScheduleStatus once more, with the instant and the schedule of the
\* first call
EvaluateAgain ==
    /\ result.called /\ ~returned.called
    /\ returned' = [called |-> TRUE] @@ getScheduleStatus(date, schedule)
    /\ UNCHANGED <<arg, schedVars, localZone, playerVars, storeVars, editorVars>>

TwiceNext ==
    \/ \E d \in Instants : Evaluate(d)
    \/ \E z \in LocalZones : Relocate(z)
    \/ EvaluateAgain

\* getScheduleStatus twice on the corpus, at every instant of the grid
TwiceSpec == EvalInit /\ [][TwiceNext]_vars

\* the table as requests find it: every placelist with its author
RouteInit ==
    /\ placelists \in [PlacelistIds -> {Row(u, "first", "stored") : u \in Users}]
    /\ CallIdle
    /\ localZone = UTC
    /\ schedule = <<>> /\ parseResult = NoParse /\ date = 0 /\ result = NoResult
    /\ PlayerOff
    /\ AccountsIdle
    /\ EditorIdle

RouteNext ==
    \/ \E user \in Users \cup {NoUser}, id \in PlacelistIds, name \in FormNames,
          text \in FormTexts : EditAction(user, id, name, text)
    \/ \E user \in Users \cup {NoUser}, id \in PlacelistIds, name \in FormNames,
          text \in FormTexts : AppEditAction(user, id, name, text)
    \/ \E user \in Users \cup {NoUser}, id \in PlacelistIds, intent \in Intents :
          DetailAction(user, id, intent)

\* requests to the routes under /placelists
RouteSpec == RouteInit /\ [][RouteNext]_vars

(***************************************************************************)
(* Accounts: app/lib/db.ts (generateCodename, createUser,                  *)
(* getUserByCodename, associateSessionWithUser), the signup action of      *)
(* src/unnamed/part_003, the login action and the play action's            *)
(* associate-session intent.                                               *)
(*                                                                         *)
(* The word lists are cut to their first entries (2 x 1 x 2 codenames      *)
(* instead of 16 x 14 x 16): Math.random() may pick any entry, so every    *)
(* run of the cut lists is a run of the program.  The schema               *)
(* (src/unnamed/part_006, model User) declares no unique constraint on the *)
(* three codename columns, so prisma.user.create never rejects a row.      *)
(***************************************************************************)
MaxUsers == 3

\* db.ts lines 9-23, the first entries of each list
adjectives1 == {<<"f", "l", "u", "f", "f", "y">>, <<"s", "h", "i", "n", "y">>}
adjectives2 == {<<"o", "r", "n", "a", "t", "e">>}
nouns == {<<"b", "u", "n", "n", "y">>, <<"p", "a", "n", "d", "a">>}

\* what a login form posts: the three parts picked from the lists, the same
\* in capitals, or a form with the noun left out
LoginForms ==
    {<<a1, a2, n>> : a1 \in adjectives1, a2 \in adjectives2, n \in nouns}
    \cup {<<toUpperCase(a1), a2, toUpperCase(n)>> :
              a1 \in adjectives1, a2 \in adjectives2, n \in nouns}
    \cup {<<a1, a2, <<>> >> : a1 \in adjectives1, a2 \in adjectives2}

\* lines 25-37: one codename, each part drawn by Math.random()
generateCodename ==
    {[codenameAdjective1 |-> a1, codenameAdjective2 |-> a2, codenameNoun |-> n] :
        a1 \in adjectives1, a2 \in adjectives2, n \in nouns}

\* the three codename columns of a row
CodenameOf(user) ==
    <<user.codenameAdjective1, user.codenameAdjective2, user.codenameNoun>>

\* lines 40-52: prisma.user.create with a fresh id
createUser(codename) ==
    [id |-> Len(users) + 1,
     codenameAdjective1 |-> codename.codenameAdjective1,
     codenameAdjective2 |-> codename.codenameAdjective2,
     codenameNoun |-> codename.codenameNoun]

\* lines 54-66: the rows findFirst may return (no orderBy: any matching row)
getUserByCodename(adj1, adj2, noun) ==
    {i \in DOMAIN users :
        CodenameOf(users[i]) = <<toLowerCase(adj1), toLowerCase(adj2), toLowerCase(noun)>>}

\* what an action answered: the user of the session cookie it set, if any
Answer(by, codename, userId) ==
    [called |-> TRUE, by |-> by, codename |-> codename, userId |-> userId]

\* part_003 lines 11-41: the signup action
Signup ==
    /\ Len(users) < MaxUsers
    /\ \E codename \in generateCodename :
          /\ users' = Append(users, createUser(codename))
          /\ arg' = <<>>
          /\ returned' = Answer("signup", CodenameOf(codename), Len(users) + 1)
    /\ UNCHANGED <<schedVars, localZone, playerVars, placelists, sessionUserId, editorVars>>

\* the login action
Login(adj1, adj2, noun) ==
    /\ arg' = <<adj1, adj2, noun>>
    /\ IF adj1 = <<>> \/ adj2 = <<>> \/ noun = <<>>
       THEN returned' = Answer("login", arg', null)
       ELSE IF getUserByCodename(adj1, adj2, noun) = {}
       THEN returned' = Answer("login", arg', null)
       ELSE \E i \in getUserByCodename(adj1, adj2, noun) :
               returned' = Answer("login", arg', users[i].id)
    /\ UNCHANGED <<schedVars, localZone, playerVars, storeVars, editorVars>>

\* the intents the play action is posted with here (update-progress is the
\* pair ServerRead / ServerWrite of the player)
PlayIntents == {"associate-session", "other"}

\* db.ts lines 195-201
associateSessionWithUser(userId) == userId

\* part_003 lines 126-165: the play action; user is getUser(request)
PlayAction(user, intent) ==
    /\ arg' = <<user, intent>>
    /\ IF intent = "associate-session"
       THEN IF user = null
            THEN /\ returned' = [called |-> TRUE, by |-> "play", status |-> 302]
                 /\ UNCHANGED sessionUserId
            ELSE /\ sessionUserId' = associateSessionWithUser(user)
                 /\ returned' = [called |-> TRUE, by |-> "play", status |-> 200]
       ELSE /\ returned' = [called |-> TRUE, by |-> "play", status |-> 400]
            /\ UNCHANGED sessionUserId
    /\ UNCHANGED <<schedVars, localZone, playerVars, placelists, users, editorVars>>

AccountInit ==
    /\ CallIdle
    /\ localZone = UTC
    /\ schedule = <<>> /\ parseResult = NoParse /\ date = 0 /\ result = NoResult
    /\ PlayerIdle

AccountNext ==
    \/ Signup
    \/ \E form \in LoginForms : Login(form[1], form[2], form[3])
    \/ \E user \in {users[i].id : i \in DOMAIN users} \cup {null}, intent \in PlayIntents :
          PlayAction(user, intent)

\* sign-ups, logins and requests to the play action of one session
AccountSpec == AccountInit /\ [][AccountNext]_vars

(***************************************************************************)
(* The placelist editor: app/components/PlacelistEditor.tsx, lines 700-917 *)
(*                                                                         *)
(* A handler of the preview tab builds the new list, stores it with        *)
(* setParsedItems and writes formatAsYaml of it into the text; when the    *)
(* text changed, the parse effect of lines 722-735 then parses the text    *)
(* and stores what the parser returns.  An action is the handler together  *)
(* with that render and effect.                                            *)
(***************************************************************************)
MaxEntries == 2

\* the track URLs typed into the forms (the field may be left empty) and the
\* places picked on the map or reported by the browser
TrackA == SpotifyTrack \o <<"a", "1">>
TrackB == SpotifyTrack \o <<"b", "2">>
FormUrls == {<<>>, TrackA}
SavedUrls == {<<>>, TrackB}
PickedLocations ==
    {[lat |-> [neg |-> TRUE, int |-> 3, frac |-> <<"5">>],
      lng |-> [neg |-> FALSE, int |-> 4, frac |-> <<>>]]}
FormSchedules == {<<>>, <<"9", "-", "5">>}

\* defaultValues.placelistText: the new form, and a stored text in each format
DefaultTexts ==
    {<<>>,
     <<"-", "3", ".", "5", "0", ",", "4", "\n">> \o TrackA,
     <<"-", " ", "l", "o", "c", "a", "t", "i", "o", "n", ":", "\n">>
        \o <<" ", " ", " ", " ", "l", "a", "t", ":", " ", "0", "\n">>
        \o <<" ", " ", " ", " ", "l", "n", "g", ":", " ", "0", "\n">>
        \o <<" ", " ", "s", "p", "o", "t", "i", "f", "y", "U", "r", "l", ":", " ">>
        \o TrackA \o <<"\n">>}

\* the item the forms build (lines 761-765, 824-828, 849-853)
NewItem(location, url) ==
    [location |-> location, spotifyUrl |-> url,
     trackId |-> extractSpotifyTrackId(url), onlyDuring |-> absent]

\* lines 722-735: the parse effect on text; kept: the list when the parser throws
ParseEffectOf(outcome, kept) == IF outcome.threw THEN kept ELSE outcome.value
ParseEffect(text, kept) ==
    IF text = <<>> THEN <<>> ELSE ParseEffectOf(parsePlacelistText(text), kept)

\* setParsedItems(updatedItems) and updateTextFromParsedItems(updatedItems)
\* (lines 738-742) with newText = formatAsYaml(updatedItems), then the render
\* and the parse effect, which runs when the text changed
Updated(updatedItems, newText) ==
    /\ textAreaValue' = newText
    /\ parsedItems' = IF newText # textAreaValue
                      THEN ParseEffect(newText, updatedItems)
                      ELSE updatedItems
updateTextFromParsedItems(updatedItems) ==
    Updated(updatedItems, formatAsYaml(updatedItems))

\* splice(index, 1) and arrayMove of @dnd-kit/sortable; indices count from 0
Without(list, index) ==
    [k \in 1..(Len(list) - 1) |-> IF k <= index THEN list[k] ELSE list[k + 1]]
InsertAt(list, index, item) ==
    [k \in 1..(Len(list) + 1) |->
        IF k <= index THEN list[k] ELSE IF k = index + 1 THEN item ELSE list[k - 1]]
arrayMove(list, from, to) == InsertAt(Without(list, from), to, list[from + 1])

\* the frame of a handler of the editor
EditorFrame == UNCHANGED <<schedVars, localZone, playerVars, storeVars, callVars>>

\* line 1122: the track URL field of the new entry form
SpotifyChange(url) ==
    /\ url # newEntrySpotifyUrl
    /\ newEntrySpotifyUrl' = url
    /\ UNCHANGED <<parsedItems, textAreaValue, isGettingLocation, locationRequests>>
    /\ EditorFrame

\* lines 745-756
handleEntryLocationSelect(index, location) ==
    /\ index < Len(parsedItems)
    /\ updateTextFromParsedItems([parsedItems EXCEPT ![index + 1].location = location])
    /\ UNCHANGED <<newEntrySpotifyUrl, isGettingLocation, locationRequests>>
    /\ EditorFrame

\* lines 759-774
handleNewEntryLocationSelect(location) ==
    /\ Len(parsedItems) < MaxEntries
    /\ updateTextFromParsedItems(Append(parsedItems, NewItem(location, newEntrySpotifyUrl)))
    /\ newEntrySpotifyUrl' = <<>>
    /\ UNCHANGED <<isGettingLocation, locationRequests>>
    /\ EditorFrame

\* lines 846-862
addSpotifyOnlyEntry ==
    /\ Len(parsedItems) < MaxEntries
    /\ newEntrySpotifyUrl # <<>>
    /\ updateTextFromParsedItems(
           Append(parsedItems, NewItem([lat |-> Zero, lng |-> Zero], newEntrySpotifyUrl)))
    /\ newEntrySpotifyUrl' = <<>>
    /\ UNCHANGED <<isGettingLocation, locationRequests>>
    /\ EditorFrame

\* lines 865-876
updateSpotifyUrl(index, url) ==
    /\ index < Len(parsedItems)
    /\ updateTextFromParsedItems(
           [parsedItems EXCEPT ![index + 1].spotifyUrl = url,
                               ![index + 1].trackId = extractSpotifyTrackId(url)])
    /\ UNCHANGED <<newEntrySpotifyUrl, isGettingLocation, locationRequests>>
    /\ EditorFrame

\* lines 879-895; an empty schedule arrives as undefined (line 507)
updateSchedule(index, sched) ==
    /\ index < Len(parsedItems)
    /\ updateTextFromParsedItems(
           [parsedItems EXCEPT ![index + 1].onlyDuring =
                                   IF sched # <<>> THEN sched ELSE absent])
    /\ UNCHANGED <<newEntrySpotifyUrl, isGettingLocation, locationRequests>>
    /\ EditorFrame

\* lines 898-903
removeEntry(index) ==
    /\ index < Len(parsedItems)
    /\ updateTextFromParsedItems(Without(parsedItems, index))
    /\ UNCHANGED <<newEntrySpotifyUrl, isGettingLocation, locationRequests>>
    /\ EditorFrame

\* lines 906-917
handleDragEnd(oldIndex, newIndex) ==
    /\ oldIndex < Len(parsedItems) /\ newIndex < Len(parsedItems)
    /\ oldIndex # newIndex
    /\ updateTextFromParsedItems(arrayMove(parsedItems, oldIndex, newIndex))
    /\ UNCHANGED <<newEntrySpotifyUrl, isGettingLocation, locationRequests>>
    /\ EditorFrame

\* the entry a 'use current location' request is for: an index, or the new one
NewEntry == null

\* addCurrentLocationToEntry (lines 805-818) and addCurrentLocationToNewEntry
\* (lines 821-838) up to the call of getCurrentPosition (lines 777-802): the
\* callback handed over holds parsedItems and newEntrySpotifyUrl of this
\* render.  The buttons are disabled while isGettingLocation is set.
RequestLocation(index) ==
    /\ ~isGettingLocation
    /\ IF index = NewEntry THEN Len(parsedItems) < MaxEntries ELSE index < Len(parsedItems)
    /\ isGettingLocation' = TRUE
    /\ locationRequests' = Append(locationRequests,
                                  [index |-> index, parsedItems |-> parsedItems,
                                   newEntrySpotifyUrl |-> newEntrySpotifyUrl])
    /\ UNCHANGED <<parsedItems, textAreaValue, newEntrySpotifyUrl>>
    /\ EditorFrame

\* the callback of lines 806-817 or 822-837 on the list it holds
LocationApplied(request, location) ==
    IF request.index = NewEntry
    THEN Append(request.parsedItems, NewItem(location, request.newEntrySpotifyUrl))
    ELSE [request.parsedItems EXCEPT ![request.index + 1].location = location]

\* the success callback of getCurrentPosition (lines 786-790)
LocationArrives(location) ==
    /\ locationRequests # <<>>
    /\ updateTextFromParsedItems(LocationApplied(Head(locationRequests), location))
    /\ newEntrySpotifyUrl' = IF Head(locationRequests).index = NewEntry
                             THEN <<>> ELSE newEntrySpotifyUrl
    /\ isGettingLocation' = FALSE
    /\ locationRequests' = Tail(locationRequests)
    /\ EditorFrame

\* the error callback of getCurrentPosition (lines 791-795)
LocationFails ==
    /\ locationRequests # <<>>
    /\ isGettingLocation' = FALSE
    /\ locationRequests' = Tail(locationRequests)
    /\ UNCHANGED <<parsedItems, textAreaValue, newEntrySpotifyUrl>>
    /\ EditorFrame

\* the editor after its first render and parse effect
EditorInit ==
    /\ textAreaValue \in DefaultTexts
    /\ parsedItems = ParseEffect(textAreaValue, <<>>)
    /\ newEntrySpotifyUrl = <<>>
    /\ isGettingLocation = FALSE
    /\ locationRequests = <<>>
    /\ placelists = [id \in PlacelistIds |-> NoRow]
    /\ AccountsIdle
    /\ CallIdle
    /\ localZone = UTC
    /\ schedule = <<>> /\ parseResult = NoParse /\ date = 0 /\ result = NoResult
    /\ PlayerOff

EditorNext ==
    \/ \E url \in FormUrls : SpotifyChange(url)
    \/ \E index \in 0..(MaxEntries - 1), location \in PickedLocations :
          handleEntryLocationSelect(index, location)
    \/ \E location \in PickedLocations : handleNewEntryLocationSelect(location)
    \/ addSpotifyOnlyEntry
    \/ \E index \in 0..(MaxEntries - 1), url \in SavedUrls : updateSpotifyUrl(index, url)
    \/ \E index \in 0..(MaxEntries - 1), sched \in FormSchedules :
          updateSchedule(index, sched)
    \/ \E index \in 0..(MaxEntries - 1) : removeEntry(index)
    \/ \E oldIndex, newIndex \in 0..(MaxEntries - 1) : handleDragEnd(oldIndex, newIndex)

\* the operations of the preview tab that finish in one step
EditorSpec == EditorInit /\ [][EditorNext]_vars

\* the place the browser reports
ReportedLocations ==
    {[lat |-> [neg |-> FALSE, int |-> 5, frac |-> <<>>],
      lng |-> [neg |-> FALSE, int |-> 6, frac |-> <<>>]]}

LocationNext ==
    \/ \E url \in FormUrls : SpotifyChange(url)
    \/ addSpotifyOnlyEntry
    \/ \E index \in 0..(MaxEntries - 1) : removeEntry(index)
    \/ \E oldIndex, newIndex \in 0..(MaxEntries - 1) : handleDragEnd(oldIndex, newIndex)
    \/ \E index \in (0..(MaxEntries - 1)) \cup {NewEntry} : RequestLocation(index)
    \/ \E location \in ReportedLocations : LocationArrives(location)
    \/ LocationFails

\* 'use current location' requests among other operations of the preview tab
LocationSpec == EditorInit /\ [][LocationNext]_vars

(***************************************************************************)
(* Properties                                                              *)
(***************************************************************************)
\* lines 182-249: parsing the text throws into the catch of line 246
Malformed(text) == ParseScheduleTry(text).threw

\* the watch x is the one of the current render: its closure holds the current
\* item, and no unlock is in flight
CurrentWatch(x) ==
    /\ mounted /\ watching /\ ~error
    /\ x.item = currentItem /\ ~x.unlocking /\ ~unlocking
    /\ fetcherState = "idle"

\* a sample of the current watch within the radius of the current waypoint,
\* whose schedule is malformed
MalformedSample(x, p) ==
    /\ CurrentWatch(x)
    /\ HasSchedule(currentItem)
    /\ Malformed(items[currentItem + 1].onlyDuring)
    /\ calculateDistance(p, items[currentItem + 1].location) <= UnlockRadius
    /\ Len(requests) < MaxRequests
    /\ PositionSample(x, p)

\* C1: a position sample within 25 m of the current waypoint, with no unlock in
\* flight, unlocks a waypoint whose schedule does not parse, and the unlock
\* control of such a waypoint is never disabled because of the schedule.
C1_MalformedScheduleIsAlwaysOpen ==
    /\ [][\A x \in watches, p \in Positions :
            MalformedSample(x, p) => currentItem' = currentItem + 1]_vars
    /\ []((UnlockShown /\ ~unlocking /\ HasSchedule(currentItem)
           /\ Malformed(items[currentItem + 1].onlyDuring)) => ~UnlockDisabled)

\* the rule of waypoint i (counted from 0) does not forbid unlocking at instant
\* d: it has none, or none that parses and evaluates, or it is open
RuleAllows(i, d) ==
    \/ ~HasSchedule(i)
    \/ Malformed(items[i + 1].onlyDuring)
    \/ getScheduleStatus(d, items[i + 1].onlyDuring).threw
    \/ getScheduleStatus(d, items[i + 1].onlyDuring).open

\* C2: the current waypoint index advances past waypoint i only when the
\* latest position sample is within 25 m of waypoint i and the rule of
\* waypoint i, if it has one that parses, is open.
C2_AdvanceOnlyAtOpenWaypoint ==
    [][currentItem' > currentItem =>
        /\ position' # null
        /\ calculateDistance(position', items[currentItem + 1].location) <= UnlockRadius
        /\ RuleAllows(currentItem, now)]_vars

(***************************************************************************)
(* Properties of getScheduleStatus                                         *)
(***************************************************************************)
WeekendSchedule ==
    <<"9","-","5"," ","(","M","O","-","F","R",")",";"," ","1","0","-","3"," ","(","S","A","-","S","U",")"," ","P","S","T">>
OvernightMonday == <<"2","2","-","2"," ","(","M","O",")">>

\* getScheduleStatus returned
Returned == result.called /\ ~result.threw

\* the instant is the given weekday (0 = Sunday) and minute of the day at an offset
IsAt(d, offset, weekday, minute) ==
    WeekdayAt(d, offset) = weekday /\ MinuteAt(d, offset) = minute

\* C3: "9-5 (MO-FR); 10-3 (SA-SU) PST" is open at Saturday 11:00 PST, and at
\* Saturday 16:00 PST it is closed with no next opening.
C3_WeekendScenario ==
    (Returned /\ schedule = WeekendSchedule) =>
        /\ IsAt(date, ZoneOffset(PST), 6, 11 * 60) => result.open
        /\ IsAt(date, ZoneOffset(PST), 6, 16 * 60) =>
               (~result.open /\ result.nextOpenIn = null)

\* the minute of the day getScheduleStatus compares with (line 268)
TargetMinute == MinuteAt(date, ZoneOffset(parseResult.timeZone))

\* range r covers minute m of a day tagged today that follows a day tagged yesterday
Covers(r, m, today, yesterday) ==
    \/ today \in r.days /\ r.start <= m /\ m < r.end
    \/ yesterday \in r.days /\ m < r.end - MinutesPerDay

\* C4: getScheduleStatus returns open exactly when some time range has today's
\* weekday in its day set and start <= minute < end, or yesterday's weekday in
\* its day set and minute < end - 1440; "22-2 (MO)" is open at Monday 23:00 and
\* at Tuesday 01:00 and closed at Tuesday 03:00.
C4_OpenIffSomeRangeCovers ==
    Returned =>
        /\ result.open <=>
               \E i \in DOMAIN parseResult.timeRanges :
                   Covers(parseResult.timeRanges[i], TargetMinute,
                          dayAbbrOf(date), prevDayAbbrOf(date))
        /\ schedule = OvernightMonday =>
               /\ IsAt(date, ZoneOffset(localZone), 1, 23 * 60) => result.open
               /\ IsAt(date, ZoneOffset(localZone), 2, 1 * 60) => result.open
               /\ IsAt(date, ZoneOffset(localZone), 2, 3 * 60) => ~result.open

\* "22-2 (MO)" was evaluated at Tuesday 01:00 and is open through the yesterday branch
C4_Witness ==
    /\ Returned /\ schedule = OvernightMonday
    /\ IsAt(date, ZoneOffset(localZone), 2, 1 * 60)
    /\ result.open

\* the open flag the loop gives with the weekday tags of the rule's zone
OpenInRuleZone ==
    ScanRanges(parseResult.timeRanges, 1, null, TargetMinute,
               dayNames[WeekdayAt(date, ZoneOffset(parseResult.timeZone)) + 1],
               dayNames[((WeekdayAt(date, ZoneOffset(parseResult.timeZone)) + 6) % 7) + 1]).open

\* C5: when the instant's calendar day in the rule's zone differs from its
\* calendar day in the system's local zone, the weekday that day sets are
\* matched against is the one of the rule's zone.
C5_WeekdayInRuleZone ==
    (Returned /\ WeekdayAt(date, ZoneOffset(parseResult.timeZone)) # getDay(date)) =>
        result.open = OpenInRuleZone

\* the starts of the ranges of today that are ahead of the minute
StartsAhead ==
    {parseResult.timeRanges[i].start : i \in
        {j \in DOMAIN parseResult.timeRanges :
            /\ dayAbbrOf(date) \in parseResult.timeRanges[j].days
            /\ parseResult.timeRanges[j].start > TargetMinute}}

\* C6: whenever getScheduleStatus returns open = false, nextOpenIn is the least
\* start among the ranges whose day set has today's weekday and whose start is
\* ahead of the minute, minus the minute, and null when there is no such range.
C6_NextOpenInIsLeastStartAhead ==
    (Returned /\ ~result.open) =>
        result.nextOpenIn = IF StartsAhead = {} THEN null
                            ELSE MinOf(StartsAhead) - TargetMinute

\* closed with two ranges of today ahead, the later one listed first
C6_Witness ==
    /\ Returned /\ ~result.open
    /\ Cardinality(StartsAhead) >= 2
    /\ parseResult.timeRanges[1].start > MinOf(StartsAhead)
    /\ dayAbbrOf(date) \in parseResult.timeRanges[1].days

\* C9: getScheduleStatus returns a result and never throws, whatever the date
\* and the schedule string, an unrecognised zone token included.
C9_EvaluationNeverThrows ==
    result.called => ~result.threw

(***************************************************************************)
(* Properties of parseSchedule                                             *)
(***************************************************************************)
\* the entries of the text that match the entry pattern
MatchedEntries(text) ==
    {EntryMatch(entry) : entry \in
        {e \in Range(split(StripZone(text), <<";", " ">>)) : EntryMatch(e).matched}}

\* some time range of the text does not split into two times at "-", or one of
\* its times fails the time grammar
TimeRangeFails(text) ==
    \E match \in MatchedEntries(text) :
        \E timeRange \in Range(split(match.timePart, <<",", " ">>)) :
            ParseTimeRange(timeRange, {}).threw

\* C7: parsing a schedule in which a time range does not split into exactly two
\* times, or in which a time fails the time grammar, gives a result the caller
\* can tell apart from a rule with zero time ranges.
C7_FailureIsNotTheEmptyRule ==
    (parseResult.called /\ TimeRangeFails(schedule)) => parseResult.timeRanges # <<>>

\* DAY or DAY-DAY, DAY one of mo, tu, we, th, fr, sa, su in any letter case
DayItem(part) ==
    \/ toLowerCase(part) \in Range(dayOrder)
    \/ /\ DayRangeMatch(part)
       /\ toLowerCase(SubSeq(part, 1, 2)) \in Range(dayOrder)
       /\ toLowerCase(SubSeq(part, 4, 5)) \in Range(dayOrder)

\* some token of a day list of the text is neither DAY nor DAY-DAY
HasInvalidDayToken(text) ==
    \E match \in MatchedEntries(text) :
        \E part \in Range(split(match.daysPart, <<",", " ">>)) : ~DayItem(part)

\* C8: parsing a schedule whose day list has a token that is neither DAY nor
\* DAY-DAY fails with a format error and returns no rule.
C8_InvalidDayTokenFails ==
    (parseResult.called /\ HasInvalidDayToken(schedule)) =>
        (Malformed(schedule) /\ parseResult.timeRanges = <<>>)

\* C10: every time range of a rule parseSchedule returns has 0 <= start < 1440,
\* 0 <= end < 2880 and end >= start.
C10_RangesWithinBounds ==
    parseResult.called =>
        \A i \in DOMAIN parseResult.timeRanges :
            /\ 0 <= parseResult.timeRanges[i].start
            /\ parseResult.timeRanges[i].start < MinutesPerDay
            /\ 0 <= parseResult.timeRanges[i].end
            /\ parseResult.timeRanges[i].end < 2 * MinutesPerDay
            /\ parseResult.timeRanges[i].end >= parseResult.timeRanges[i].start

(***************************************************************************)
(* Properties of the zone of a schedule                                    *)
(***************************************************************************)
\* the trailing token when the text ends in whitespace and 2-5 uppercase
\* letters, else the local zone
UppercaseZoneOf(text) == ZoneOfText(text, UpperTzMatchLens(text))

\* C11: the zone of a parsed schedule is the trailing token when the text ends
\* in whitespace followed by 2-5 uppercase letters and the local zone
\* otherwise, and getScheduleStatus returns that zone as timeZone.
C11_ZoneIsUppercaseTokenOrLocal ==
    (result.called /\ ~Malformed(schedule)) =>
        /\ parseResult.timeZone = UppercaseZoneOf(schedule)
        /\ ~result.threw => result.timeZone = UppercaseZoneOf(schedule)

(***************************************************************************)
(* Properties of the separators of a schedule                              *)
(***************************************************************************)
\* the text with a space put after every "," and ";" that has none
RECURSIVE WithSpaces(_)
WithSpaces(text) ==
    IF text = <<>> THEN <<>>
    ELSE IF Head(text) \in {",", ";"} /\ (Len(text) = 1 \/ text[2] # " ")
    THEN <<Head(text), " ">> \o WithSpaces(Tail(text))
    ELSE <<Head(text)>> \o WithSpaces(Tail(text))

\* the text conforms to the grammar once its separators are spaced: every
\* entry, time range and day item is well formed
Conforms(text) ==
    /\ ~Malformed(WithSpaces(text))
    /\ ~HasInvalidDayToken(WithSpaces(text))

\* position i of the text is outside the parentheses of a day list
OutsideDays(text, i) ==
    Cardinality({j \in 1..i : text[j] = "("}) = Cardinality({j \in 1..i : text[j] = ")"})

\* the time ranges the text names: one more than its separators outside day lists
CountRanges(text) ==
    1 + Cardinality({i \in DOMAIN text : text[i] \in {",", ";"} /\ OutsideDays(text, i)})

\* C12: for a text that conforms to the grammar the parsed rule has one time
\* range for every time range of every entry, each with every day item of its
\* entry, whether or not a space follows a separator.
C12_NothingDroppedAtSeparators ==
    (parseResult.called /\ Conforms(schedule)) =>
        /\ Len(parseResult.timeRanges) = CountRanges(schedule)
        /\ parseResult.timeRanges = ParseScheduleTry(WithSpaces(schedule)).timeRanges

(***************************************************************************)
(* Properties of expandDayRange                                            *)
(***************************************************************************)
\* the place of a day token in mo, tu, we, th, fr, sa, su, whatever its case
DayIndex(token) == IndexIn(dayOrder, toLowerCase(token))

\* C13: "X-Y" expands to exactly the days from X through Y in the order mo, tu,
\* we, th, fr, sa, su when X is not after Y, and to no day when it is; "MO-WE"
\* gives mo, tu, we and "FR-MO" gives none.
C13_DayRangeExpansion ==
    returned.called =>
        /\ Range(returned.value) =
               {dayOrder[k] : k \in DayIndex(SubSeq(arg, 1, 2))..DayIndex(SubSeq(arg, 4, 5))}
        /\ arg = <<"M","O","-","W","E">> => Range(returned.value) = {mo, tu, we}
        /\ arg = <<"F","R","-","M","O">> => Range(returned.value) = {}

\* "Tu-fr" was expanded to four days
C13_Witness ==
    /\ returned.called
    /\ arg = <<"T","u","-","f","r">>
    /\ returned.value = <<tu, we, th, fr>>

(***************************************************************************)
(* Properties of parseTime                                                 *)
(***************************************************************************)
\* the hour a marker gives hour h of 1..12: 0 for 12am, 12 for 12pm, h + 12
\* for pm, h for am; and h with no marker
MarkedHour(h, marker) ==
    IF marker = <<>> THEN h
    ELSE IF LowerChar(marker[1]) = "a" THEN (IF h = 12 THEN 0 ELSE h)
    ELSE (IF h = 12 THEN 12 ELSE h + 12)

\* the value of an accepted time with its groups
MarkedValue(match) ==
    60 * MarkedHour(parseInt(match.hourStr), match.period)
    + (IF match.minuteStr = <<>> THEN 0 ELSE parseInt(match.minuteStr))

\* C14: for every time the grammar accepts the parsed value is 60 * H + mm,
\* where H is 0 for 12am, 12 for 12pm, h + 12 for pm and h for am with h in
\* 1..11, and h with no marker.
C14_TimeValue ==
    (returned.called /\ ~returned.threw
     /\ (TimeMatch(arg).period # <<>> => parseInt(TimeMatch(arg).hourStr) \in 1..12))
        => returned.value = MarkedValue(TimeMatch(arg))

(***************************************************************************)
(* Properties of parseTraditionalFormat                                    *)
(***************************************************************************)
\* the indices of the coordinate lines and of the track lines of a text
CoordinateIndices(lines) == {i \in DOMAIN lines : IsCoordinateLine(lines[i])}
TrackIndices(lines) ==
    {i \in DOMAIN lines : ~IsCoordinateLine(lines[i]) /\ IsTrackLine(lines[i])}

\* a coordinate line that is not immediately followed by a track line
IsPending(lines, i) ==
    /\ i \in CoordinateIndices(lines)
    /\ (i + 1) \notin TrackIndices(lines)

\* the waypoint that pairs coordinate line i with track line j is returned
Paired(lines, waypoints, i, j) ==
    \E k \in DOMAIN waypoints :
        /\ waypoints[k].location = LocationOf(lines[i])
        /\ waypoints[k].spotifyUrl = lines[j]

\* a is b with some elements left out
RECURSIVE IsSubsequence(_, _)
IsSubsequence(a, b) ==
    IF a = <<>> THEN TRUE
    ELSE IF b = <<>> THEN FALSE
    ELSE IF Head(a) = Head(b) THEN IsSubsequence(Tail(a), Tail(b))
    ELSE IsSubsequence(a, Tail(b))

LocationsOf(waypoints) == [k \in DOMAIN waypoints |-> waypoints[k].location]
CoordinatesOf(lines) ==
    LocationsOf(SelectSeq([i \in DOMAIN lines |->
                              [location |-> IF IsCoordinateLine(lines[i])
                                            THEN LocationOf(lines[i]) ELSE NoLocation]],
                          LAMBDA w : w.location # NoLocation))

PendingPaired(lines, waypoints) ==
    \A i \in DOMAIN lines :
        IsPending(lines, i) /\ (\E j \in TrackIndices(lines) : j > i)
        => Paired(lines, waypoints, i, MinOf({j \in TrackIndices(lines) : j > i}))

\* C15: the legacy parser pairs a coordinate line that is not immediately
\* followed by a track line with the next track line after it, and returns the
\* waypoints in the order of their coordinate lines.
C15_PendingPairedInOrder ==
    returned.called =>
        /\ PendingPaired(FilteredLines(arg), returned.value)
        /\ IsSubsequence(LocationsOf(returned.value), CoordinatesOf(FilteredLines(arg)))

(***************************************************************************)
(* Properties of parsePlacelistText, parseYamlFormat and formatAsYaml      *)
(***************************************************************************)
ExampleText == <<"3","7",".","7","7","4","9",",","-","1","2","2",".","4","1","9","4">> \o <<"\n">> \o <<"s","p","o","t","i","f","y",":","t","r","a","c","k",":","a","b","c","1","2","3">>
ExampleLocation ==
    [lat |-> [neg |-> FALSE, int |-> 37, frac |-> <<"7","7","4","9">>],
     lng |-> [neg |-> TRUE, int |-> 122, frac |-> <<"4","1","9","4">>]]

ReturnedBy(by, stages) ==
    returned.called /\ returned.by = by /\ returned.stage \in stages

\* what the combined parser is to return for a text
StructuredElseLegacy(structured, text) ==
    IF structured.threw THEN parseTraditionalFormat(text) ELSE structured.value

\* C16: the combined parser never raises; it returns the structured parser's
\* list when that parser succeeds and otherwise the legacy parser's list for
\* the same text, so the example text yields one waypoint through the legacy
\* path and the editor's parse effect never sees an exception.
C16_CombinedNeverRaises ==
    ReturnedBy("parsePlacelistText", {"parsed", "reparsed"}) =>
        /\ ~returned.threw
        /\ returned.value = StructuredElseLegacy(parseYamlFormat(arg), arg)
        /\ arg = ExampleText =>
              /\ parseYamlFormat(arg).threw
              /\ Len(returned.value) = 1
              /\ returned.value[1].location = ExampleLocation
              /\ returned.value[1].trackId = <<"a","b","c","1","2","3">>

C16_Witness ==
    /\ ReturnedBy("parsePlacelistText", {"parsed"})
    /\ arg = ExampleText
    /\ Len(returned.value) = 1

\* C17: for every list x the structured parser returns, the structured parser
\* succeeds on serialize(x) and returns x again: same length and order, same
\* lat, lng and track reference, onlyDuring present with the same text
\* exactly where x has it.
C17_RoundTrip ==
    ReturnedBy("parseYamlFormat", {"reparsed"}) =>
        /\ ~returned.threw
        /\ returned.value = returned.from

C17_Witness ==
    /\ ReturnedBy("parseYamlFormat", {"reparsed"})
    /\ Len(returned.from) = 2
    /\ returned.from[1].onlyDuring = absent
    /\ returned.from[2].onlyDuring = <<"t","r","u","e">>
    /\ returned.from[2].spotifyUrl = <<"1","2">>
    /\ returned.from[2].location.lat.frac = <<"5">>

\* lat or lng as the structured format wants it: a number, or numeric text
IsCoordinate(node) ==
    \/ node.kind = "number"
    \/ node.kind = "string" /\ IsNumeric(trim(node.str))

\* the element breaks the structured format
Breaks(item) ==
    \/ item.kind # "object"
    \/ item.location.kind # "object"
    \/ ~IsCoordinate(item.location.lat)
    \/ ~IsCoordinate(item.location.lng)
    \/ item.spotifyUrl.kind # "string"

\* the elements an error may name
Rejected(elems) == {n \in DOMAIN elems : Breaks(elems[n]) \/ ItemFails(elems[n])}

StructuredContract(doc, outcome) ==
    /\ ~outcome.threw => doc.isArray /\ \A n \in DOMAIN doc.elems : ~Breaks(doc.elems[n])
    /\ (doc.isArray /\ ~doc.threw /\ \E n \in DOMAIN doc.elems : Breaks(doc.elems[n])) =>
          /\ outcome.threw
          /\ outcome.value = <<>>
          /\ (outcome.index + 1) \in Rejected(doc.elems)

\* C18: the structured parser returns a list only when the document is a
\* sequence of mappings, each with a mapping-valued location whose lat and lng
\* are numbers and with a string track reference; when an element breaks this
\* (lat or lng absent, null, empty or not numeric included) the parse fails
\* with an error that names the element's index, and returns no list.
C18_StructuredRejects ==
    (ReturnedBy("parseYamlFormat", {"parsed"}) /\ arg # <<>>) =>
        StructuredContract(load(arg), returned)

(***************************************************************************)
(* Properties of two calls of getScheduleStatus                            *)
(***************************************************************************)
\* C19: two evaluations with the same instant and the same rule return the
\* same open, nextOpenIn and timeZone, whatever was called before and whatever
\* the state of the system they run on.
C19_SameArgumentsSameResult ==
    returned.called =>
        /\ returned.threw = result.threw
        /\ ~result.threw =>
              /\ returned.open = result.open
              /\ returned.nextOpenIn = result.nextOpenIn
              /\ returned.timeZone = result.timeZone

(***************************************************************************)
(* Properties of the routes under /placelists                              *)
(***************************************************************************)
\* the request of this step comes from the author of placelist id
FromAuthor(id) == arg'.user \in Users /\ arg'.user = placelists[id].authorId

\* C20: a stored placelist is changed or deleted only by a request that
\* carries the session of its author; a request without a session or from
\* another user leaves it as it is.
C20_OnlyTheAuthorChanges ==
    [][\A id \in PlacelistIds : placelists'[id] # placelists[id] => FromAuthor(id)]_vars

\* C21: after any sequence of sign-ups no two users have the same three-part
\* codename, so that a login with a codename resolves to the one user who
\* was given it.
C21_CodenamesAreUnique ==
    \A i, j \in DOMAIN users : CodenameOf(users[i]) = CodenameOf(users[j]) => i = j

\* list without its entry number k (0: the whole list)
Dropping(list, k) == IF k = 0 THEN list ELSE Without(list, k - 1)

\* apart from at most one entry of each, before and after are the same list
OthersKept(before, after) ==
    \E i \in 0..Len(before), j \in 0..Len(after) : Dropping(before, i) = Dropping(after, j)

\* the text is the serialized list and parses back to the list
InStep(text, list) ==
    /\ text = formatAsYaml(list)
    /\ ParseEffect(text, <<>>) = list

\* C22: after an operation of the preview tab (add, remove, reorder, change
\* of location, track URL or schedule) the text equals serialize(items) and
\* parses back to the same items in the same order, and the entries the
\* operation was not about are all still there in their order.
C22_EditorKeepsTextAndItems ==
    [][parsedItems' # parsedItems \/ textAreaValue' # textAreaValue
       => /\ InStep(textAreaValue', parsedItems')
          /\ OthersKept(parsedItems, parsedItems')]_vars

\* the callback of request on the list as it is now
AppliedNow(request, location, list) ==
    IF request.index = NewEntry
    THEN Append(list, NewItem(location, request.newEntrySpotifyUrl))
    ELSE IF request.index < Len(list)
    THEN [list EXCEPT ![request.index + 1].location = location]
    ELSE list

\* this step is the arrival of the location of a pending request
Arrival ==
    /\ locationRequests # <<>>
    /\ locationRequests' = <<>>
    /\ parsedItems' # parsedItems \/ textAreaValue' # textAreaValue

\* C28: when the location of a 'use current location' request arrives, the
\* change is applied to the entry list as it is at that time, so that what
\* was changed while the request was pending is still there.
C28_LocationAppliedToCurrentList ==
    [][Arrival =>
        \E location \in ReportedLocations :
            parsedItems' = ParseEffect(formatAsYaml(AppliedNow(Head(locationRequests),
                                                                location, parsedItems)),
                                       <<>>)]_vars

\* C23: the position watch and the minute timer are cancelled on teardown and
\* when the current waypoint index changes: once the player is unmounted no
\* subscription is left whose callback could run, and every subscription
\* that is left was registered for the current waypoint.
C23_SubscriptionsCancelled ==
    /\ ~mounted => watches = {} /\ interval = NoInterval
    /\ \A x \in watches : x.item = currentItem
    /\ interval # NoInterval => interval = currentItem

\* C24: the stored progress of the play session never decreases, whatever
\* the interleaving of the reads and writes of concurrent update-progress
\* requests.
C24_StoredProgressNeverDecreases ==
    [][storedProgress' >= storedProgress]_vars

\* C25: the current waypoint index of the mounted player never decreases,
\* stays within 0..items.length and is never below the stored progress.
C25_IndexMonotoneAndBounded ==
    [][mounted' => /\ currentItem' >= currentItem
                   /\ currentItem' \in 0..Len(items)
                   /\ currentItem' >= storedProgress']_vars

\* C26: at most one geolocation watch is active at any time, and none while
\* the player is not watching.
C26_AtMostOneWatch ==
    /\ Cardinality(watches) <= 1
    /\ ~watching => watches = {}

\* C27: at most one update-progress request is in flight: while a submitted
\* unlock has not completed, unlockNext submits nothing.
C27_OneRequestInFlight ==
    Len(requests) <= 1

\* every pair joins a coordinate line with a track line further down
PairsPointDown(lines, pairs) ==
    \A k \in DOMAIN pairs :
        /\ pairs[k][1] < pairs[k][2]
        /\ IsCoordinateLine(lines[pairs[k][1]])
        /\ IsTrackLine(lines[pairs[k][2]])

\* no line is part of two pairs
PairsShareNoLine(pairs) ==
    \A k, l \in DOMAIN pairs :
        k # l => pairs[k][1] # pairs[l][1] /\ pairs[k][2] # pairs[l][2]

\* the returned waypoints are those of the pairs, which share no line and
\* point down
UsesEachLineOnce(lines, pairs, waypoints) ==
    /\ waypoints = ItemsOfPairs(lines, pairs)
    /\ PairsPointDown(lines, pairs)
    /\ PairsShareNoLine(pairs)

\* C29: in the legacy parser every coordinate line and every track line of
\* the text contributes to at most one returned waypoint, and every returned
\* waypoint pairs a coordinate line with a track line that comes later.
C29_EachLineUsedOnce ==
    returned.called =>
        UsesEachLineOnce(FilteredLines(arg),
                         LegacyPairsFrom(FilteredLines(arg), 1, <<>>, 0),
                         returned.value)

\* a pending coordinate line was paired with a track line two lines below it,
\* and a second track line follows
PairedAcross(lines, pairs) ==
    \E k \in DOMAIN pairs :
        /\ pairs[k][2] > pairs[k][1] + 1
        /\ \E j \in DOMAIN lines : j > pairs[k][2] /\ IsTrackLine(lines[j])

C29_Witness ==
    /\ returned.called
    /\ PairedAcross(FilteredLines(arg), LegacyPairsFrom(FilteredLines(arg), 1, <<>>, 0))

\* C30: once the play session belongs to a user, no associate-session
\* request gives it to a different user.
C30_OwnerNeverChanges ==
    [][sessionUserId # null => sessionUserId' = sessionUserId]_vars

====
